---- MODULE Spec2Model ----
(***************************************************************************)
(* Model of libcpath's path functions (libcpath/libcpath_path.c).          *)
(*                                                                         *)
(* A string is a sequence of one-character strings.  A call of a library   *)
(* function is one action: the inputs (the build's platform, the process   *)
(* working directory, the function called and its path argument) are drawn *)
(* in Init, the action applies the function as the code computes it, and   *)
(* the outcome (return value, output slot, output size, write index, calls *)
(* to the working-directory provider) is kept in the state.  A caller may  *)
(* hand a full path it received back to get_full_path.                     *)
(*                                                                         *)
(*   platform   "posix" or "windows": which of the two builds runs         *)
(*   cwd        the process's current working directory                    *)
(*   driveDirs  (Windows) the current directory of every drive             *)
(*   op         the function called                                        *)
(*   path       the path argument of the call                              *)
(*   entry      the caller's output slot and output size before the call   *)
(*   pc         "start" before the call, "done" after it                   *)
(*   result     the outcome of the call                                    *)
(***************************************************************************)
EXTENDS Integers, Sequences, FiniteSets, TLC

VARIABLES platform, cwd, driveDirs, op, path, entry, pc, result

vars == <<platform, cwd, driveDirs, op, path, entry, pc, result>>

(***************************************************************************)
(* Bounds of the model.                                                    *)
(***************************************************************************)
\* Largest number of separator-delimited segments of a POSIX input path.
MaxPosixSegs == 5
\* Largest number of segments that follow the prefix of a Windows input path.
MaxWinSegs == 4
\* Largest length of the strings get_path_type is called with on their own.
MaxClassifyLen == 4

(***************************************************************************)
(* size_t arithmetic.  The code computes sizes in size_t, which wraps.     *)
(* TLC's integers are 32 bits wide, so the model keeps a narrower          *)
(* wrap-around width; a wrapped size is far above any allocation that can  *)
(* succeed in either width.                                                *)
(***************************************************************************)
SizeBits == 24
SizeModulus == 2 ^ SizeBits
\* Largest allocation that succeeds; larger (wrapped) requests return NULL.
AllocMax == 2 ^ (SizeBits - 1)
SSIZE_MAX == 2 ^ (SizeBits - 1) - 1

SizeAdd(a, b) == (a + b) % SizeModulus
SizeSub(a, b) == (a - b + SizeModulus) % SizeModulus

(***************************************************************************)
(* Strings.                                                                *)
(***************************************************************************)
RECURSIVE Concat(_)
Concat(seqs) == IF seqs = << >> THEN << >> ELSE Head(seqs) \o Concat(Tail(seqs))

RECURSIVE JoinWith(_, _)
JoinWith(seqs, sep) ==
    IF seqs = << >> THEN << >>
    ELSE IF Len(seqs) = 1 THEN Head(seqs)
    ELSE Head(seqs) \o <<sep>> \o JoinWith(Tail(seqs), sep)

RECURSIVE SeqsUpTo(_, _)
\* All sequences over S of length 1..n.
SeqsUpTo(S, n) ==
    IF n = 0 THEN {}
    ELSE LET shorter == SeqsUpTo(S, n - 1)
         IN  {<<x>> : x \in S} \cup shorter
                \cup {Append(s, x) : s \in {t \in shorter : Len(t) = n - 1}, x \in S}

UpperLetters == {"A", "B", "C", "D", "E", "F", "G", "H", "I", "J", "K", "L", "M",
                 "N", "O", "P", "Q", "R", "S", "T", "U", "V", "W", "X", "Y", "Z"}
LowerLetters == {"a", "b", "c", "d", "e", "f", "g", "h", "i", "j", "k", "l", "m",
                 "n", "o", "p", "q", "r", "s", "t", "u", "v", "w", "x", "y", "z"}

(***************************************************************************)
(* The segment list collaborator (libcsplit).  A segment is its characters *)
(* and its size, which counts the end-of-string character; a cleared       *)
(* segment is NULL with size 0.                                            *)
(***************************************************************************)
Segment(chars) == [chars |-> chars, size |-> Len(chars) + 1]
ClearedSegment == [chars |-> << >>, size |-> 0]

\* libcsplit_narrow_string_split: one segment per delimiter plus one; an
\* empty string has no segments.
SplitString(string, delimiter) ==
    LET RECURSIVE Scan(_, _, _)
        Scan(i, current, segments) ==
            IF i > Len(string) THEN Append(segments, Segment(current))
            ELSE IF string[i] = delimiter
                 THEN Scan(i + 1, << >>, Append(segments, Segment(current)))
                 ELSE Scan(i + 1, Append(current, string[i]), segments)
    IN  IF string = << >> THEN << >> ELSE Scan(1, << >>, << >>)

\* libcsplit_narrow_split_string_get_segment_by_index fails outside
\* 0 .. number_of_segments - 1.
SegmentIndexValid(segments, index) == index >= 0 /\ index < Len(segments)
GetSegment(segments, index) == segments[index + 1]
\* libcsplit_narrow_split_string_set_segment_by_index( .., NULL, 0 )
ClearSegment(segments, index) == [segments EXCEPT ![index + 1] = ClearedSegment]

(***************************************************************************)
(* The counting pass of get_full_path: the walk over the segments of the   *)
(* input path that clears `..`, `.` and empty segments and keeps the       *)
(* predicted size in step.  The state of the walk is                       *)
(*   path_segments, cd_segments  the two segment lists                     *)
(*   has_cd                      current_directory_split_string != NULL    *)
(*   cd_index                    current_directory_segment_index           *)
(*   last_used                   last_used_path_segment_index (-1: none)   *)
(*   size                        safe_full_path_size                       *)
(*   error                       "none", or the error that ended the walk  *)
(***************************************************************************)
\* Mutant of IsDotDotSegment: the size test is forgotten.
IsDotDotSegmentAnySize(segment) ==
    /\ segment.size >= 3
    /\ segment.chars[1] = "."
    /\ segment.chars[2] = "."

IsDotDotSegment(segment) ==
    /\ segment.size = 3
    /\ segment.chars[1] = "."
    /\ segment.chars[2] = "."

\* Mutant of IsDotSegment: the size test is forgotten.
IsDotSegmentAnySize(segment) ==
    /\ segment.size >= 2
    /\ segment.chars[1] = "."

IsDotSegment(segment) ==
    /\ segment.size = 2
    /\ segment.chars[1] = "."

RECURSIVE FindPreviousUsedSegment(_, _)
\* while( last_used_path_segment_index > 0 ) { index--; if( size != 0 ) break; }
FindPreviousUsedSegment(segments, index) ==
    IF index > 0
    THEN IF GetSegment(segments, index - 1).size # 0
         THEN index - 1
         ELSE FindPreviousUsedSegment(segments, index - 1)
    ELSE index

\* `..` while no input segment is in use: clear a working-directory segment.
PopCurrentDirectorySegment(walk) ==
    IF ~SegmentIndexValid(walk.cd_segments, walk.cd_index)
    THEN [walk EXCEPT !.error = "GetFailed"]
    ELSE IF GetSegment(walk.cd_segments, walk.cd_index).size = 0
    THEN [walk EXCEPT !.error = "ValueMissing"]
    ELSE [walk EXCEPT
            !.size = SizeSub(walk.size, GetSegment(walk.cd_segments, walk.cd_index).size),
            !.cd_segments = ClearSegment(walk.cd_segments, walk.cd_index),
            !.cd_index = walk.cd_index - 1]

\* `..` while an input segment is in use: clear it and look for the one before.
PopLastUsedPathSegment(walk) ==
    IF GetSegment(walk.path_segments, walk.last_used).size = 0
    THEN [walk EXCEPT !.error = "ValueMissing"]
    ELSE LET cleared == ClearSegment(walk.path_segments, walk.last_used)
         IN  [walk EXCEPT
                !.size = SizeSub(walk.size, GetSegment(walk.path_segments, walk.last_used).size),
                !.path_segments = cleared,
                !.last_used = FindPreviousUsedSegment(cleared, walk.last_used)]

\* One iteration of the loop over the input segments.
ElidePathSegment(walk, index) ==
    LET segment == GetSegment(walk.path_segments, index)
        clearCurrent(w) ==
            IF w.error # "none" THEN w
            ELSE [w EXCEPT !.path_segments = ClearSegment(w.path_segments, index)]
    IN  IF IsDotDotSegment(segment)
        THEN IF walk.has_cd /\ walk.last_used = -1
             THEN clearCurrent(PopCurrentDirectorySegment(walk))
             ELSE IF walk.last_used >= 0
             THEN clearCurrent(PopLastUsedPathSegment(walk))
             ELSE clearCurrent(walk)
        ELSE IF IsDotSegment(segment)
        THEN clearCurrent(walk)
        ELSE IF segment.size <= 1
        THEN clearCurrent(walk)
        ELSE [walk EXCEPT !.size = SizeAdd(walk.size, segment.size),
                          !.last_used = index]

RECURSIVE ElidePathSegmentsFrom(_, _)
ElidePathSegmentsFrom(walk, index) ==
    IF walk.error # "none" \/ index >= Len(walk.path_segments)
    THEN walk
    ELSE ElidePathSegmentsFrom(ElidePathSegment(walk, index), index + 1)

CountingPass(path_segments, has_cd, cd_segments, start_size) ==
    ElidePathSegmentsFrom(
        [path_segments |-> path_segments,
         has_cd        |-> has_cd,
         cd_segments   |-> cd_segments,
         cd_index      |-> Len(cd_segments) - 1,
         last_used     |-> -1,
         size          |-> start_size,
         error         |-> "none"], 0)

(***************************************************************************)
(* The write pass: every segment whose size is not 0 is copied, followed   *)
(* by a separator.                                                         *)
(***************************************************************************)
RECURSIVE WriteSegments(_, _)
WriteSegments(segments, separator) ==
    IF segments = << >> THEN << >>
    ELSE (IF Head(segments).size # 0
          THEN Head(segments).chars \o <<separator>>
          ELSE << >>) \o WriteSegments(Tail(segments), separator)

(***************************************************************************)
(* Results of a call.                                                      *)
(*   status          "ok" (returned 1), "error" (returned -1) or "crash"   *)
(*   error           the error reported                                    *)
(*   full_path_null  *full_path == NULL at return                          *)
(*   full_path       the string at *full_path (up to the terminator)       *)
(*   full_path_size  *full_path_size at return                             *)
(*   written         the characters written by the write pass, in index    *)
(*                   order, before the last one is overwritten by the      *)
(*                   terminator; its length is full_path_index             *)
(*   path_type       the path type the call determined ("none": not yet)   *)
(*   cwd_calls       calls made to the working-directory provider          *)
(***************************************************************************)
\* What get_full_path allocates, and what it frees before it returns.
GetFullPathBuffers == {"full_path", "path_split_string",
                       "current_directory_split_string", "current_directory"}
\* Mutant of GetFullPathOnErrorFrees: current_directory is not freed.
GetFullPathOnErrorFreesLeavesDirectory ==
    {"full_path", "path_split_string", "current_directory_split_string"}

GetFullPathOnErrorFrees == {"full_path", "path_split_string",
                            "current_directory_split_string", "current_directory"}
GetFullPathOnSuccessFrees == {"path_split_string",
                              "current_directory_split_string", "current_directory"}

\* The return through on_error.
ErrorResult(error, path_type, cwd_calls) ==
    [status |-> "error", error |-> error, full_path_null |-> TRUE,
     full_path |-> << >>, full_path_size |-> 0, written |-> << >>,
     path_type |-> path_type, cwd_calls |-> cwd_calls,
     unfreed |-> GetFullPathBuffers \ GetFullPathOnErrorFrees]

\* The end of the call from the allocation on.  A zero-size allocation may
\* return NULL or a pointer; a write outside the allocated buffer is
\* undefined behaviour: the call may go on and return 1, or crash.
AllocateAndWrite(size, written, path_type, cwd_calls) ==
    LET wrote == [status |-> "ok", error |-> "none", full_path_null |-> FALSE,
                  full_path |-> IF written = << >> THEN << >>
                                ELSE SubSeq(written, 1, Len(written) - 1),
                  full_path_size |-> size, written |-> written,
                  path_type |-> path_type, cwd_calls |-> cwd_calls,
                  unfreed |-> (GetFullPathBuffers \ {"full_path"})
                                  \ GetFullPathOnSuccessFrees]
        outOfBounds == Len(written) > size \/ Len(written) = 0
        run == IF outOfBounds
               THEN {wrote, [wrote EXCEPT !.status = "crash"]}
               ELSE {wrote}
    IN  IF size > AllocMax THEN {ErrorResult("Memory", path_type, cwd_calls)}
        ELSE IF size = 0 THEN {ErrorResult("Memory", path_type, cwd_calls)} \cup run
        ELSE run

(***************************************************************************)
(* libcpath_path_get_full_path, POSIX build.                               *)
(***************************************************************************)
PosixStartSize(path_type, current_directory) ==
    IF path_type = "Absolute" THEN 1
    ELSE IF Len(current_directory) >= 1
            /\ current_directory[Len(current_directory)] # "/"
         THEN Len(current_directory) + 1
         ELSE Len(current_directory)

PosixGetFullPath(p, working_directory) ==
    IF Len(p) = 0 THEN {ErrorResult("InvalidArgument", "none", << >>)}
    ELSE
    LET path_type == IF p[1] = "/" THEN "Absolute" ELSE "Relative"
        cwd_calls == IF path_type = "Absolute" THEN << >> ELSE <<"get">>
        has_cd    == path_type = "Relative"
        cd_segments == IF has_cd THEN SplitString(working_directory, "/") ELSE << >>
        walk == CountingPass(SplitString(p, "/"), has_cd, cd_segments,
                             PosixStartSize(path_type, working_directory))
        written == (IF path_type = "Absolute" THEN <<"/">> ELSE << >>)
                   \o (IF path_type = "Relative" /\ has_cd
                       THEN WriteSegments(walk.cd_segments, "/") ELSE << >>)
                   \o WriteSegments(walk.path_segments, "/")
    IN  IF walk.error # "none" THEN {ErrorResult(walk.error, path_type, cwd_calls)}
        ELSE AllocateAndWrite(walk.size, written, path_type, cwd_calls)

(***************************************************************************)
(* Windows: path classification and volume name.                           *)
(* At(p, i) is the C expression p[ i ] (indices from 0).                   *)
(***************************************************************************)
At(p, i) == p[i + 1]

IsLetter(c) == c \in UpperLetters \/ c \in LowerLetters

\* The test shared by get_path_type and get_volume_name: \\.\ or \\?\
HasSpecialPrefix(p) ==
    /\ Len(p) >= 4
    /\ At(p, 0) = "\\"
    /\ At(p, 1) = "\\"
    /\ (At(p, 2) = "." \/ At(p, 2) = "?")
    /\ At(p, 3) = "\\"

HasUncLiteral(p) ==
    /\ Len(p) >= 8
    /\ At(p, 4) = "U"
    /\ At(p, 5) = "N"
    /\ At(p, 6) = "C"
    /\ At(p, 7) = "\\"

\* Mutant of GetPathType: the separator after `<letter>:` is not tested.
GetPathTypeNoSeparatorTest(p) ==
    IF HasSpecialPrefix(p)
    THEN IF At(p, 2) = "." THEN "Device"
         ELSE IF HasUncLiteral(p) THEN "ExtendedLengthUNC"
         ELSE "ExtendedLength"
    ELSE IF Len(p) >= 2 /\ At(p, 0) = "\\" /\ At(p, 1) = "\\" THEN "UNC"
    ELSE IF At(p, 0) = "\\" THEN "Absolute"
    ELSE IF Len(p) >= 2 /\ At(p, 1) = ":" /\ IsLetter(At(p, 0))
    THEN "Absolute"
    ELSE "Relative"

\* libcpath_path_get_path_type, for path_length >= 1
GetPathType(p) ==
    IF HasSpecialPrefix(p)
    THEN IF At(p, 2) = "." THEN "Device"
         ELSE IF HasUncLiteral(p) THEN "ExtendedLengthUNC"
         ELSE "ExtendedLength"
    ELSE IF Len(p) >= 2 /\ At(p, 0) = "\\" /\ At(p, 1) = "\\" THEN "UNC"
    ELSE IF At(p, 0) = "\\" THEN "Absolute"
    ELSE IF Len(p) >= 3 /\ At(p, 1) = ":" /\ At(p, 2) = "\\" /\ IsLetter(At(p, 0))
    THEN "Absolute"
    ELSE "Relative"

\* volume_name_index as get_volume_name determines it
VolumeNameIndex(p) ==
    IF HasSpecialPrefix(p)
    THEN IF At(p, 2) = "." THEN 4
         ELSE IF HasUncLiteral(p) THEN 8
         ELSE 4
    ELSE IF Len(p) >= 2 /\ At(p, 0) = "\\" /\ At(p, 1) = "\\" THEN 2
    ELSE 0

RECURSIVE ScanPastSeparator(_, _)
\* for( i = from; i < path_length; i++ ) { if( path[ i ] == '\\' ) { i++; break; } }
ScanPastSeparator(p, from) ==
    IF from >= Len(p) THEN from
    ELSE IF At(p, from) = "\\" THEN from + 1
    ELSE ScanPastSeparator(p, from + 1)

\* Mutant of VolumeSlice: the separator before path_index stays in the name.
VolumeSliceKeepsSeparator(p, volume_name_index, path_index) ==
    [ok |-> TRUE, null |-> FALSE, start |-> volume_name_index,
     length |-> path_index - volume_name_index,
     directory_name_index |-> path_index]

\* The volume name between volume_name_index and path_index: its length is
\* computed in size_t and loses the separator before path_index, if any.
VolumeSlice(p, volume_name_index, path_index) ==
    LET length == IF At(p, path_index - 1) = "\\"
                  THEN SizeSub(path_index - volume_name_index, 1)
                  ELSE path_index - volume_name_index
    IN  [ok |-> TRUE, null |-> FALSE, start |-> volume_name_index,
         length |-> length, directory_name_index |-> path_index]

NoVolume == [ok |-> TRUE, null |-> TRUE, start |-> 0, length |-> 0,
             directory_name_index |-> 0]

\* libcpath_path_get_volume_name, for path_length >= 1
GetVolumeName(p) ==
    LET vni == VolumeNameIndex(p)
    IN  IF /\ Len(p) >= 2
           /\ vni <= Len(p) - 2
           /\ At(p, vni + 1) = ":"
           /\ IsLetter(At(p, vni))
        THEN LET path_index == IF vni + 2 < Len(p) /\ At(p, vni + 2) = "\\"
                               THEN vni + 3 ELSE vni + 2
             IN  VolumeSlice(p, vni, path_index)
        ELSE IF vni = 4
        THEN VolumeSlice(p, 4, ScanPastSeparator(p, 4))
        ELSE IF vni = 2 \/ vni = 8
        THEN LET share_name_index == ScanPastSeparator(p, vni)
             IN  IF share_name_index > Len(p)
                 THEN [NoVolume EXCEPT !.ok = FALSE]
                 ELSE VolumeSlice(p, vni, ScanPastSeparator(p, share_name_index))
        ELSE NoVolume

\* The characters of a volume name that lies inside p.
VolumeChars(p, volume) == SubSeq(p, volume.start + 1, volume.start + volume.length)

(***************************************************************************)
(* Windows: the working-directory provider.  The process has a current     *)
(* directory and every drive has one; changing to `<letter>:` makes that   *)
(* drive's directory the current one.                                      *)
(***************************************************************************)
UpperOf == [a |-> "A", b |-> "B", c |-> "C", d |-> "D", e |-> "E", f |-> "F",
            g |-> "G", h |-> "H", i |-> "I", j |-> "J", k |-> "K", l |-> "L",
            m |-> "M", n |-> "N", o |-> "O", p |-> "P", q |-> "Q", r |-> "R",
            s |-> "S", t |-> "T", u |-> "U", v |-> "V", w |-> "W", x |-> "X",
            y |-> "Y", z |-> "Z"]

DriveOfLetter(c) == IF c \in LowerLetters THEN UpperOf[c] ELSE c

\* libcpath_path_change_directory (SetCurrentDirectoryA)
ChangeDirectory(env, name) ==
    IF Len(name) >= 2 /\ name[2] = ":" /\ IsLetter(name[1])
          /\ DriveOfLetter(name[1]) \in DOMAIN env.driveDirs
    THEN LET drive == DriveOfLetter(name[1])
         IN  IF Len(name) = 2
             THEN [ok |-> TRUE, cwd |-> env.driveDirs[drive], driveDirs |-> env.driveDirs]
             ELSE [ok |-> TRUE, cwd |-> name,
                   driveDirs |-> [env.driveDirs EXCEPT ![drive] = name]]
    ELSE [ok |-> FALSE, cwd |-> env.cwd, driveDirs |-> env.driveDirs]

\* The caller's output slot before the call: empty with size 0 is the
\* calling convention; the guards exist for a caller that does otherwise.
EntryUnset == [set |-> FALSE, size |-> 0]
Entries == {EntryUnset, [set |-> FALSE, size |-> 7], [set |-> TRUE, size |-> 7]}

(***************************************************************************)
(* libcpath_path_get_current_working_directory and                         *)
(* libcpath_path_get_current_working_directory_by_volume, with a provider  *)
(* whose calls can fail: faults says which of the provider calls of the    *)
(* invocation fail (save: the read of the directory to return to, switch:  *)
(* the change to the volume, read: the read of the directory asked for,    *)
(* restore: the change back).                                              *)
(***************************************************************************)
PATH_MAX == 4096

NoFaults == [save |-> FALSE, switch |-> FALSE, read |-> FALSE, restore |-> FALSE]
Faults == [save : BOOLEAN, switch : BOOLEAN, read : BOOLEAN, restore : BOOLEAN]

\* What by_volume allocates besides the caller's directory, and what it
\* has freed at its two returns.
ByVolumeBuffers == {"change_volume_name", "current_volume_working_directory"}
ByVolumeFrees == {"change_volume_name", "current_volume_working_directory"}

\* libcpath_path_get_current_working_directory on the slot of its caller:
\* the POSIX build reports the size of its buffer, PATH_MAX, the Windows
\* build the length of the directory plus one.
GetCurrentWorkingDirectory(pf, directory, slot, fails) ==
    IF slot.set
    THEN [ok |-> FALSE, error |-> "ValueAlreadySet", directory_null |-> FALSE,
          directory_size |-> slot.size, directory |-> << >>]
    ELSE IF fails
    THEN [ok |-> FALSE, error |-> "GetFailed", directory_null |-> TRUE,
          directory_size |-> 0, directory |-> << >>]
    ELSE [ok |-> TRUE, error |-> "none", directory_null |-> FALSE,
          directory_size |-> IF pf = "windows" THEN Len(directory) + 1
                             ELSE PATH_MAX,
          directory |-> directory]

\* The return of by_volume through on_error: the slot is emptied.
ByVolumeOnError(error, calls, env) ==
    [ok |-> FALSE, error |-> error, directory_null |-> TRUE, directory_size |-> 0,
     directory |-> << >>, calls |-> calls, cwd |-> env.cwd,
     driveDirs |-> env.driveDirs, unfreed |-> ByVolumeBuffers \ ByVolumeFrees]

\* Mutant of ByVolumeReadAndRestore: a failed read leaves through on_error
\* at once, without the change back.
ByVolumeReadFailureLeaves(env, saved_set, saved, calls, slot, faults) ==
    LET read == GetCurrentWorkingDirectory("windows", env.cwd, slot, faults.read)
        back == ChangeDirectory(env, saved)
        out  == [ok |-> read.ok, error |-> read.error,
                 directory_null |-> read.directory_null,
                 directory_size |-> read.directory_size,
                 directory |-> read.directory, calls |-> calls \o <<"get">>,
                 cwd |-> env.cwd, driveDirs |-> env.driveDirs,
                 unfreed |-> ByVolumeBuffers \ ByVolumeFrees]
    IN  IF ~read.ok THEN ByVolumeOnError(read.error, calls \o <<"get">>, env)
        ELSE IF ~saved_set THEN out
        ELSE IF faults.restore \/ ~back.ok
        THEN ByVolumeOnError("SetFailed", calls \o <<"get", "chdir">>, env)
        ELSE [out EXCEPT !.calls = calls \o <<"get", "chdir">>,
                         !.cwd = back.cwd, !.driveDirs = back.driveDirs]

\* Mutant of ByVolumeReadAndRestore: a failed change back returns -1 with
\* the directory that was read still in the caller's slot.
ByVolumeReadAndRestoreKeepsValue(env, saved_set, saved, calls, slot, faults) ==
    LET read == GetCurrentWorkingDirectory("windows", env.cwd, slot, faults.read)
        back == ChangeDirectory(env, saved)
        out  == [ok |-> read.ok, error |-> read.error,
                 directory_null |-> read.directory_null,
                 directory_size |-> read.directory_size,
                 directory |-> read.directory, calls |-> calls \o <<"get">>,
                 cwd |-> env.cwd, driveDirs |-> env.driveDirs,
                 unfreed |-> ByVolumeBuffers \ ByVolumeFrees]
    IN  IF ~saved_set THEN out
        ELSE IF faults.restore \/ ~back.ok
        THEN [out EXCEPT !.ok = FALSE, !.error = "SetFailed",
                         !.calls = calls \o <<"get", "chdir">>]
        ELSE [out EXCEPT !.calls = calls \o <<"get", "chdir">>,
                         !.cwd = back.cwd, !.driveDirs = back.driveDirs]

\* The second half of by_volume: read the directory into the caller's slot,
\* then change back to the saved directory if one was saved.
ByVolumeReadAndRestore(env, saved_set, saved, calls, slot, faults) ==
    LET read == GetCurrentWorkingDirectory("windows", env.cwd, slot, faults.read)
        back == ChangeDirectory(env, saved)
        out  == [ok |-> read.ok, error |-> read.error,
                 directory_null |-> read.directory_null,
                 directory_size |-> read.directory_size,
                 directory |-> read.directory, calls |-> calls \o <<"get">>,
                 cwd |-> env.cwd, driveDirs |-> env.driveDirs,
                 unfreed |-> ByVolumeBuffers \ ByVolumeFrees]
    IN  IF ~saved_set THEN out
        ELSE IF faults.restore \/ ~back.ok
        THEN ByVolumeOnError("SetFailed", calls \o <<"get", "chdir">>, env)
        ELSE [out EXCEPT !.calls = calls \o <<"get", "chdir">>,
                         !.cwd = back.cwd, !.driveDirs = back.driveDirs]

\* libcpath_path_get_current_working_directory_by_volume with the caller's
\* slot and a provider that can fail.
ByVolumeWithProvider(volume_null, volume_from, volume, env, slot, faults) ==
    IF volume_null
    THEN ByVolumeReadAndRestore(env, FALSE, << >>, << >>, slot, faults)
    ELSE IF volume.length > SSIZE_MAX - 1
    THEN ByVolumeOnError("ValueExceedsMaximum", << >>, env)
    ELSE IF faults.save
    THEN ByVolumeOnError("GetFailed", <<"get">>, env)
    ELSE LET switched == ChangeDirectory(env, VolumeChars(volume_from, volume))
         IN  IF faults.switch \/ ~switched.ok
             THEN ByVolumeOnError("SetFailed", <<"get", "chdir">>, env)
             ELSE ByVolumeReadAndRestore(
                      [cwd |-> switched.cwd, driveDirs |-> switched.driveDirs],
                      TRUE, env.cwd, <<"get", "chdir">>, slot, faults)

\* libcpath_path_get_current_working_directory_by_volume as get_full_path
\* calls it: into its own empty current_directory; the provider's calls are
\* taken to succeed wherever the directory or drive exists.
GetCurrentWorkingDirectoryByVolume(volume_null, volume_from, volume, env) ==
    ByVolumeWithProvider(volume_null, volume_from, volume, env, EntryUnset,
                         NoFaults)

(***************************************************************************)
(* libcpath_path_get_full_path, Windows build.                             *)
(***************************************************************************)
\* Mutant of NeedsCurrentDirectory: the UNC type is left out of the test.
NeedsCurrentDirectoryForUnc(path_type) ==
    /\ path_type # "Device"
    /\ path_type # "ExtendedLength"
    /\ path_type # "ExtendedLengthUNC"

NeedsCurrentDirectory(path_type) ==
    /\ path_type # "Device"
    /\ path_type # "ExtendedLength"
    /\ path_type # "ExtendedLengthUNC"
    /\ path_type # "UNC"

IsUncType(path_type) == path_type = "ExtendedLengthUNC" \/ path_type = "UNC"

\* safe_full_path_size before the walk over the input segments
WinStartSize(path_type, volume, current_directory, current_directory_name_index) ==
    LET current_directory_size == Len(current_directory) + 1
        prefix   == 4
        withVol  == IF volume.null THEN prefix
                    ELSE SizeAdd(prefix, SizeAdd(volume.length, 1))
        withUnc  == IF IsUncType(path_type) THEN SizeAdd(withVol, 4) ELSE withVol
    IN  IF path_type = "Relative" /\ current_directory_name_index < current_directory_size
        THEN LET withCd == SizeAdd(withUnc,
                               current_directory_size - (current_directory_name_index + 1))
             IN  IF current_directory_size >= 2
                    /\ At(current_directory, current_directory_size - 2) # "\\"
                 THEN SizeAdd(withCd, 1)
                 ELSE withCd
        ELSE withUnc

\* Mutant of WinFullPathPrefix: every type gets the extended-length prefix.
WinFullPathPrefixAlwaysExtended(path_type) == <<"\\", "\\", "?", "\\">>

WinFullPathPrefix(path_type) ==
    IF path_type = "Device" THEN <<"\\", "\\", ".", "\\">>
    ELSE <<"\\", "\\", "?", "\\">>

WinGetFullPath(p, env) ==
    IF Len(p) = 0 THEN {ErrorResult("InvalidArgument", "none", << >>)}
    ELSE
    LET path_type   == GetPathType(p)
        path_volume == GetVolumeName(p)
        needs_cd    == NeedsCurrentDirectory(path_type)
        lookup      == GetCurrentWorkingDirectoryByVolume(
                           path_volume.null, p, path_volume, env)
        cwd_calls   == IF needs_cd THEN lookup.calls ELSE << >>
        current_directory == IF needs_cd THEN lookup.directory ELSE << >>
        cd_volume   == GetVolumeName(current_directory)
        \* volume_name either still points into the path or into the directory
        volume      == IF needs_cd THEN cd_volume ELSE path_volume
        volume_from == IF needs_cd THEN current_directory ELSE p
        current_directory_name_index ==
                       IF needs_cd THEN cd_volume.directory_name_index ELSE 0
        has_cd      == needs_cd
                       /\ current_directory_name_index < Len(current_directory) + 1
        cd_segments == IF has_cd
                       THEN SplitString(SubSeq(current_directory,
                                               current_directory_name_index + 1,
                                               Len(current_directory)), "\\")
                       ELSE << >>
        path_segments == SplitString(SubSeq(p, path_volume.directory_name_index + 1,
                                            Len(p)), "\\")
        walk == CountingPass(path_segments, has_cd, cd_segments,
                             WinStartSize(path_type, volume, current_directory,
                                          current_directory_name_index))
        written == WinFullPathPrefix(path_type)
                   \o (IF IsUncType(path_type) THEN <<"U", "N", "C", "\\">> ELSE << >>)
                   \o (IF volume.null THEN << >>
                       ELSE VolumeChars(volume_from, volume) \o <<"\\">>)
                   \o (IF path_type = "Relative" /\ has_cd
                       THEN WriteSegments(walk.cd_segments, "\\") ELSE << >>)
                   \o WriteSegments(walk.path_segments, "\\")
    IN  IF ~path_volume.ok THEN {ErrorResult("GetFailed", path_type, << >>)}
        ELSE IF needs_cd /\ ~lookup.ok
        THEN {ErrorResult("GetFailed", path_type, cwd_calls)}
        ELSE IF needs_cd /\ ~cd_volume.ok
        THEN {ErrorResult("GetFailed", path_type, cwd_calls)}
        ELSE IF walk.error # "none"
        THEN {ErrorResult(walk.error, path_type, cwd_calls)}
        ELSE IF ~volume.null /\ volume.length > AllocMax
        \* the copy of a volume name whose length wrapped runs off the buffer
        THEN IF walk.size > AllocMax
             THEN {ErrorResult("Memory", path_type, cwd_calls)}
             ELSE {[status |-> "crash", error |-> "none", full_path_null |-> FALSE,
                    full_path |-> << >>, full_path_size |-> walk.size,
                    written |-> WinFullPathPrefix(path_type), path_type |-> path_type,
                    cwd_calls |-> cwd_calls, unfreed |-> GetFullPathBuffers]}
        ELSE AllocateAndWrite(walk.size, written, path_type, cwd_calls)

(***************************************************************************)
(* Inputs.  An input path is made of segments joined by the separator, so  *)
(* that `..`, `.`, empty segments (leading, doubled and trailing           *)
(* separators) and names that only begin with dots all occur.              *)
(***************************************************************************)
PosixSegmentChoices == {<< >>, <<".">>, <<".", ".">>, <<"a">>, <<"b">>,
                        <<".", ".", "a">>}

PosixPaths == {JoinWith(segments, "/") :
                   segments \in SeqsUpTo(PosixSegmentChoices, MaxPosixSegs)}

\* getcwd returns an absolute path without `.`, `..` or doubled separators
PosixWorkingDirectories == {<<"/">>, <<"/", "a">>, <<"/", "a", "/", "b">>}

WinSegmentChoices == {<< >>, <<".">>, <<".", ".">>, <<"a">>, <<"b">>}

WinBodies == {<< >>} \cup {JoinWith(segments, "\\") :
                              segments \in SeqsUpTo(WinSegmentChoices, MaxWinSegs)}

WinPrefixes == {
    << >>,
    <<"C", ":">>,
    <<"C", ":", "\\">>,
    <<"c", ":", "\\">>,
    <<"D", ":">>,
    <<"D", ":", "\\">>,
    <<"Z", ":", "\\">>,
    <<"1", ":", "\\">>,
    <<"\\", "\\", "s">>,
    <<"\\", "\\", "s", "\\", "h", "\\">>,
    <<"\\", "\\", ".">>,
    <<"\\", "\\", ".", "\\">>,
    <<"\\", "\\", ".", "\\", "P">>,
    <<"\\", "\\", "?">>,
    <<"\\", "\\", "?", "\\">>,
    <<"\\", "\\", "?", "\\", "C", ":", "\\">>,
    <<"\\", "\\", "?", "\\", "U", "N", "C">>,
    <<"\\", "\\", "?", "\\", "U", "N", "X", "\\">>,
    <<"\\", "\\", "?", "\\", "U", "N", "C", "\\">>,
    <<"\\", "\\", "?", "\\", "U", "N", "C", "\\", "s", "\\", "h", "\\">> }

WinPaths == {prefix \o body : prefix \in WinPrefixes, body \in WinBodies}

\* Short strings over the characters the classification looks at.
ClassifyAlphabet == {"\\", ".", "?", ":", "C", "1"}
ClassifyPaths == WinPaths \cup SeqsUpTo(ClassifyAlphabet, MaxClassifyLen)

\* GetCurrentDirectory returns `<letter>:\` for a root and no trailing
\* separator otherwise
WinWorkingDirectories == {<<"C", ":", "\\">>, <<"C", ":", "\\", "a">>,
                          <<"C", ":", "\\", "a", "\\", "b">>}

WinOtherDriveDirectory == <<"D", ":", "\\", "b">>

(***************************************************************************)
(* The state machine.                                                      *)
(***************************************************************************)
NoResult ==
    [status |-> "none", error |-> "none", full_path_null |-> TRUE,
     full_path |-> << >>, full_path_size |-> 0, written |-> << >>,
     path_type |-> "none", cwd_calls |-> << >>, unfreed |-> {}]

\* The argument guards of get_full_path: they return before anything is
\* allocated or assigned.
GetFullPathGuardNoSlotTest(path_length, slot) ==
    IF path_length = 0 THEN "InvalidArgument"
    ELSE IF path_length > SSIZE_MAX - 1 THEN "InvalidArgument"
    ELSE "none"

GetFullPathGuard(path_length, slot) ==
    IF path_length = 0 THEN "InvalidArgument"
    ELSE IF path_length > SSIZE_MAX - 1 THEN "InvalidArgument"
    ELSE IF slot.set THEN "ValueAlreadySet"
    ELSE "none"

RejectedResult(error, slot) ==
    [ErrorResult(error, "none", << >>) EXCEPT !.full_path_null = ~slot.set,
                                              !.full_path_size = slot.size,
                                              !.unfreed = {}]

Init ==
    /\ platform \in {"posix", "windows"}
    /\ entry = EntryUnset
    /\ \/ /\ platform = "posix"
          /\ cwd \in PosixWorkingDirectories
          /\ driveDirs = << >>
          /\ op = "get_full_path"
          /\ path \in PosixPaths
       \/ /\ platform = "windows"
          /\ cwd \in WinWorkingDirectories
          /\ driveDirs = [C |-> cwd, D |-> WinOtherDriveDirectory]
          /\ op = "get_full_path"
          /\ path \in WinPaths
       \/ /\ platform = "windows"
          /\ cwd = <<"C", ":", "\\">>
          /\ driveDirs = [C |-> cwd, D |-> WinOtherDriveDirectory]
          /\ op = "get_path_type"
          /\ path \in ClassifyPaths
    /\ pc = "start"
    /\ result = NoResult

\* A call of get_full_path in the POSIX build.
GetFullPathPosix ==
    /\ pc = "start"
    /\ platform = "posix"
    /\ op = "get_full_path"
    /\ IF GetFullPathGuard(Len(path), entry) # "none"
       THEN result' = RejectedResult(GetFullPathGuard(Len(path), entry), entry)
       ELSE \E r \in PosixGetFullPath(path, cwd) : result' = r
    /\ pc' = "done"
    /\ UNCHANGED <<platform, cwd, driveDirs, op, path, entry>>

\* A call of get_full_path in the Windows build.
GetFullPathWindows ==
    /\ pc = "start"
    /\ platform = "windows"
    /\ op = "get_full_path"
    /\ IF GetFullPathGuard(Len(path), entry) # "none"
       THEN result' = RejectedResult(GetFullPathGuard(Len(path), entry), entry)
       ELSE \E r \in WinGetFullPath(path, [cwd |-> cwd,
                                            driveDirs |-> driveDirs]) :
                result' = r
    /\ pc' = "done"
    /\ UNCHANGED <<platform, cwd, driveDirs, op, path, entry>>

\* A call of get_path_type (Windows build only).
GetPathTypeCall ==
    /\ pc = "start"
    /\ platform = "windows"
    /\ op = "get_path_type"
    /\ result' = IF Len(path) = 0
                 THEN ErrorResult("InvalidArgument", "none", << >>)
                 ELSE [NoResult EXCEPT !.status = "ok", !.path_type = GetPathType(path)]
    /\ pc' = "done"
    /\ UNCHANGED <<platform, cwd, driveDirs, op, path, entry>>

\* The caller resolves again the full path a call returned within its buffer.
ResolveAgain ==
    /\ pc = "done"
    /\ op = "get_full_path"
    /\ result.status = "ok"
    /\ Len(result.written) >= 1
    /\ Len(result.written) <= result.full_path_size
    /\ path' = result.full_path
    /\ pc' = "start"
    /\ result' = NoResult
    /\ UNCHANGED <<platform, cwd, driveDirs, op, entry>>

Next == GetFullPathPosix \/ GetFullPathWindows \/ GetPathTypeCall \/ ResolveAgain

Spec == Init /\ [][Next]_vars

(***************************************************************************)
(* What the state says about the call.                                     *)
(***************************************************************************)
Done == pc = "done"
Succeeded == pc = "done" /\ result.status = "ok"
Failed == pc = "done" /\ result.status = "error"
FullPathCall == pc = "done" /\ op = "get_full_path"
\* full_path_index at the end of the write pass
FullPathIndex == Len(result.written)

(***************************************************************************)
(* Reference notions the properties are stated with: lexical               *)
(* normalization, written independently of the code's two passes.          *)
(***************************************************************************)
RECURSIVE RefSplit(_, _)
\* The pieces of str between the separators.
RefSplit(str, sep) ==
    IF \A i \in 1..Len(str) : str[i] # sep THEN <<str>>
    ELSE LET first == CHOOSE i \in 1..Len(str) :
                          str[i] = sep /\ \A j \in 1..(i - 1) : str[j] # sep
         IN  <<SubSeq(str, 1, first - 1)>>
                 \o RefSplit(SubSeq(str, first + 1, Len(str)), sep)

RefDot == <<".">>
RefDotDot == <<".", ".">>
RefIsName(segment) == segment # << >> /\ segment # RefDot /\ segment # RefDotDot

RECURSIVE RefResolve(_, _)
\* The names that survive: `..` removes the nearest preceding surviving name
\* and is a no-op when there is none.
RefResolve(segments, stack) ==
    IF segments = << >> THEN stack
    ELSE LET segment == Head(segments)
         IN  IF segment = RefDotDot
             THEN RefResolve(Tail(segments),
                             IF stack = << >> THEN stack
                             ELSE SubSeq(stack, 1, Len(stack) - 1))
             ELSE IF RefIsName(segment)
             THEN RefResolve(Tail(segments), Append(stack, segment))
             ELSE RefResolve(Tail(segments), stack)

RECURSIVE RefHasSurplus(_, _)
\* Some `..` of segments finds no level left to pop above depth levels.
RefHasSurplus(segments, depth) ==
    IF segments = << >> THEN FALSE
    ELSE LET segment == Head(segments)
         IN  IF segment = RefDotDot
             THEN depth = 0 \/ RefHasSurplus(Tail(segments), depth - 1)
             ELSE IF RefIsName(segment)
             THEN RefHasSurplus(Tail(segments), depth + 1)
             ELSE RefHasSurplus(Tail(segments), depth)

\* The normal form of an absolute POSIX path.
RefNormalize(str) == <<"/">> \o JoinWith(RefResolve(RefSplit(str, "/"), << >>), "/")

PosixCall == FullPathCall /\ platform = "posix" /\ Len(path) >= 1
PosixRelativeInput == PosixCall /\ path[1] # "/"
PosixAbsoluteInput == PosixCall /\ path[1] = "/"

\* A leading `/`, then one or more names, single separators, no trailing one.
IsNormalizedAbsolutePosix(p) ==
    /\ Len(p) >= 2
    /\ p[1] = "/"
    /\ \A i \in 2..Len(RefSplit(p, "/")) : RefIsName(RefSplit(p, "/")[i])

(***************************************************************************)
(* C1.  POSIX size invariant: whenever get_full_path succeeds, the         *)
(* characters written plus the terminator are exactly full_path_size, and  *)
(* nothing is written outside the buffer (the terminator index             *)
(* full_path_index - 1 included).  Stated as the claim; the code breaks    *)
(* it when the working directory is the root.                              *)
(***************************************************************************)
C1_PosixSizeInvariant ==
    (PosixCall /\ result.status = "ok")
        => (FullPathIndex = result.full_path_size /\ FullPathIndex >= 1)

(***************************************************************************)
(* C3.  POSIX get_full_path resolves a relative path against the working   *)
(* directory by lexical normalization: a successful call on a relative     *)
(* path p with working directory c returns the normal form of c / p.       *)
(***************************************************************************)
C3_PosixResolvesRelative ==
    (PosixRelativeInput /\ result.status = "ok")
        => result.full_path = RefNormalize(cwd \o <<"/">> \o path)

(***************************************************************************)
(* C4.  Every successful POSIX get_full_path result is an absolute path:   *)
(* its first character is `/`.                                             *)
(***************************************************************************)
C4_PosixResultAbsolute ==
    (PosixCall /\ result.status = "ok")
        => (Len(result.full_path) >= 1 /\ result.full_path[1] = "/")

(***************************************************************************)
(* C6.  A POSIX absolute input whose leading segments are `..` resolves,   *)
(* successfully, to `/` followed by the normal form of the rest, and the   *)
(* predicted size stays at or above its starting value of 1.               *)
(***************************************************************************)
HasLeadingDotDot(p) ==
    /\ Len(p) >= 3
    /\ p[1] = "/"
    /\ RefSplit(p, "/")[2] = RefDotDot

C6_PosixLeadingDotDotAbsorbed ==
    (PosixCall /\ HasLeadingDotDot(path))
        => /\ result.status = "ok"
           /\ result.full_path = RefNormalize(path)
           /\ result.full_path_size >= 1

(***************************************************************************)
(* C7.  Idempotence: POSIX get_full_path returns an absolute, already      *)
(* normalized path unchanged, with full_path_size = length + 1, whatever   *)
(* the working directory; this covers the second call of a caller that     *)
(* resolves a result again.                                                *)
(***************************************************************************)
C7_PosixIdempotentOnNormalized ==
    (PosixCall /\ IsNormalizedAbsolutePosix(path))
        => /\ result.status = "ok"
           /\ result.full_path = path
           /\ result.full_path_size = Len(path) + 1
           /\ FullPathIndex = result.full_path_size

C7_Witness ==
    /\ PosixCall
    /\ IsNormalizedAbsolutePosix(path)
    /\ Len(RefSplit(path, "/")) >= 3
    /\ cwd # <<"/">>
    /\ result.status = "ok"
    /\ result.full_path = path

(***************************************************************************)
(* Windows reference notions.                                              *)
(***************************************************************************)
WinCall == FullPathCall /\ platform = "windows" /\ Len(path) >= 1

RefStartsWith(p, prefix) ==
    Len(p) >= Len(prefix) /\ SubSeq(p, 1, Len(prefix)) = prefix

RefDevicePrefix == <<"\\", "\\", ".", "\\">>
RefExtendedPrefix == <<"\\", "\\", "?", "\\">>
RefExtendedUncPrefix == <<"\\", "\\", "?", "\\", "U", "N", "C", "\\">>

\* The ordered classification rules, first match wins.
RefClassify(p) ==
    IF RefStartsWith(p, RefDevicePrefix) THEN "Device"
    ELSE IF RefStartsWith(p, RefExtendedUncPrefix) THEN "ExtendedLengthUNC"
    ELSE IF RefStartsWith(p, RefExtendedPrefix) THEN "ExtendedLength"
    ELSE IF RefStartsWith(p, <<"\\", "\\">>) THEN "UNC"
    ELSE IF RefStartsWith(p, <<"\\">>) THEN "Absolute"
    ELSE IF Len(p) >= 3 /\ IsLetter(p[1]) /\ p[2] = ":" /\ p[3] = "\\" THEN "Absolute"
    ELSE "Relative"

RefIsFullType(type) ==
    type \in {"Device", "ExtendedLength", "ExtendedLengthUNC", "UNC"}

\* A full-path prefix followed by one or more names with single separators.
IsNormalizedWinFullPath(p) ==
    \E prefix \in {RefDevicePrefix, RefExtendedPrefix, RefExtendedUncPrefix} :
        /\ RefStartsWith(p, prefix)
        /\ Len(p) > Len(prefix)
        /\ LET rest == RefSplit(SubSeq(p, Len(prefix) + 1, Len(p)), "\\")
           IN  \A i \in 1..Len(rest) : RefIsName(rest[i])

\* For a path that needs a base: its drive prefix, the base directory the
\* resolve starts from, and the part of the path after the drive prefix.
RefHasDrive(p) == Len(p) >= 2 /\ IsLetter(p[1]) /\ p[2] = ":"
RefDriveKnown(p) == RefHasDrive(p) => DriveOfLetter(p[1]) \in DOMAIN driveDirs
RefBaseDirectory(p) ==
    IF RefHasDrive(p) THEN driveDirs[DriveOfLetter(p[1])] ELSE cwd
RefBody(p) == IF RefHasDrive(p) THEN SubSeq(p, 3, Len(p)) ELSE p
RefBaseNames(p) ==
    IF RefClassify(p) = "Relative"
    THEN RefResolve(RefSplit(SubSeq(RefBaseDirectory(p), 4,
                                    Len(RefBaseDirectory(p))), "\\"), << >>)
    ELSE << >>
RefWinExpected(p) ==
    LET names == RefResolve(RefSplit(RefBody(p), "\\"), RefBaseNames(p))
    IN  RefExtendedPrefix \o SubSeq(RefBaseDirectory(p), 1, 2)
            \o (IF names = << >> THEN << >> ELSE <<"\\">> \o JoinWith(names, "\\"))

PosixBaseNames == IF path[1] = "/" THEN << >>
                  ELSE RefResolve(RefSplit(cwd, "/"), << >>)
PosixExpected == IF path[1] = "/" THEN RefNormalize(path)
                 ELSE RefNormalize(cwd \o <<"/">> \o path)

(***************************************************************************)
(* C2.  Windows size invariant: whenever get_full_path succeeds, the       *)
(* characters written (prefix, UNC literal, volume name and separator,     *)
(* working-directory segments, input segments) plus the terminator are     *)
(* exactly full_path_size.  Stated as the claim; the code breaks it for a  *)
(* `..` segment in an Absolute path.                                       *)
(***************************************************************************)
C2_WinSizeInvariant ==
    (WinCall /\ result.status = "ok")
        => (FullPathIndex = result.full_path_size /\ FullPathIndex >= 1)

(***************************************************************************)
(* C5.  `..` above the root is a no-op, never an error: an input with more *)
(* `..` segments than levels to pop (working-directory names plus          *)
(* preceding input names) still resolves, to the path below the root that  *)
(* is left when the surplus `..` segments are dropped.                     *)
(***************************************************************************)
C5_InScope ==
    \/ /\ PosixCall
       /\ RefHasSurplus(RefSplit(path, "/"), Len(PosixBaseNames))
    \/ /\ WinCall
       /\ ~RefIsFullType(RefClassify(path))
       /\ RefDriveKnown(path)
       /\ RefHasSurplus(RefSplit(RefBody(path), "\\"), Len(RefBaseNames(path)))

C5_DotDotAboveRootIsNoOp ==
    C5_InScope
        => /\ result.status = "ok"
           /\ result.full_path = IF platform = "posix" THEN PosixExpected
                                 ELSE RefWinExpected(path)

(***************************************************************************)
(* C8.  On Windows a path that is already a full path comes out verbatim:  *)
(* a Device, ExtendedLength or ExtendedLengthUNC path made of its prefix   *)
(* and names resolves to itself, prefix and `UNC\` literal kept once.      *)
(***************************************************************************)
C8_WinFullPathVerbatim ==
    (WinCall /\ IsNormalizedWinFullPath(path))
        => /\ result.status = "ok"
           /\ result.full_path = path
           /\ result.full_path_size = Len(path) + 1
           /\ FullPathIndex = result.full_path_size

C8_Witness ==
    /\ WinCall
    /\ result.path_type = "Device"
    /\ IsNormalizedWinFullPath(path)
    /\ result.status = "ok"
    /\ result.full_path = path
    /\ RefStartsWith(result.full_path, RefDevicePrefix)

(***************************************************************************)
(* C9.  get_full_path consults the working-directory provider only when    *)
(* the path type needs a base: for a Windows Device, ExtendedLength,       *)
(* ExtendedLengthUNC or UNC path and for a POSIX path starting with `/`    *)
(* no provider call is made and the outcome is the same under every        *)
(* working directory.                                                      *)
(***************************************************************************)
C9_NeedsNoBase ==
    \/ PosixCall /\ path[1] = "/"
    \/ WinCall /\ RefIsFullType(RefClassify(path))

C9_ProviderOnlyWhenNeeded ==
    C9_NeedsNoBase
        => /\ result.cwd_calls = << >>
           /\ IF platform = "posix"
              THEN \A c \in PosixWorkingDirectories :
                       result \in PosixGetFullPath(path, c)
              ELSE \A c \in WinWorkingDirectories :
                       result \in WinGetFullPath(path,
                           [cwd |-> c,
                            driveDirs |-> [C |-> c, D |-> WinOtherDriveDirectory]])

C9_Witness ==
    /\ WinCall
    /\ RefClassify(path) = "UNC"
    /\ cwd # <<"C", ":", "\\">>
    /\ result.status = "ok"
    /\ result.cwd_calls = << >>

(***************************************************************************)
(* C10.  Windows path classification follows the ordered rules, first      *)
(* match wins, for every non-empty path.                                   *)
(***************************************************************************)
C10_ClassificationRules ==
    (Done /\ platform = "windows" /\ Len(path) >= 1)
        => result.path_type = RefClassify(path)

C10_Witness ==
    /\ Done
    /\ op = "get_path_type"
    /\ path = <<"C", ":">>
    /\ result.status = "ok"
    /\ result.path_type = "Relative"

(***************************************************************************)
(* libcpath_path_get_volume_name called on its own (Windows build).        *)
(***************************************************************************)
VolumePaths == ClassifyPaths

InitVolume ==
    /\ platform = "windows"
    /\ cwd = <<"C", ":", "\\">>
    /\ driveDirs = [C |-> cwd, D |-> WinOtherDriveDirectory]
    /\ op = "get_volume_name"
    /\ path \in VolumePaths
    /\ entry = EntryUnset
    /\ pc = "start"
    /\ result = NoResult

\* What the caller sees of one call: the return value and the three outputs.
VolumeResult(p) ==
    IF Len(p) = 0
    THEN [status |-> "error", error |-> "ValueZeroOrLess", volume_null |-> TRUE,
          start |-> 0, length |-> 0, directory_name_index |-> 0]
    ELSE LET volume == GetVolumeName(p)
         IN  [status |-> IF volume.ok THEN "ok" ELSE "error",
              error |-> IF volume.ok THEN "none" ELSE "ValueMissing",
              volume_null |-> volume.null, start |-> volume.start,
              length |-> volume.length,
              directory_name_index |-> volume.directory_name_index]

GetVolumeNameCall ==
    /\ pc = "start"
    /\ platform = "windows"
    /\ op = "get_volume_name"
    /\ result' = VolumeResult(path)
    /\ pc' = "done"
    /\ UNCHANGED <<platform, cwd, driveDirs, op, path, entry>>

NextVolume == GetVolumeNameCall

SpecVolume == InitVolume /\ [][NextVolume]_vars

VolumeCall == pc = "done" /\ op = "get_volume_name" /\ Len(path) >= 1

\* Offset behind the UNC prefix of a UNC-style path.
RefUncBase(p) == IF RefClassify(p) = "UNC" THEN 2 ELSE 8
RefIsUncStyle(p) == RefClassify(p) \in {"UNC", "ExtendedLengthUNC"}
\* server, share and what follows, as the pieces between the separators
RefUncParts(p) == RefSplit(SubSeq(p, RefUncBase(p) + 1, Len(p)), "\\")
\* A name that reads as `<letter>:` is taken for a drive, not for a server.
RefLooksLikeDrive(name) ==
    Len(name) >= 2 /\ name[2] = ":" /\ IsLetter(name[1])

(***************************************************************************)
(* C11.  get_volume_name fails with the missing-share-name error           *)
(* (ValueMissing) for every UNC-style path in which no separator follows   *)
(* the server name before the string ends.  Stated as the claim; the code  *)
(* returns the server name as the volume instead.                          *)
(***************************************************************************)
C11_MissingShareNameFails ==
    (VolumeCall /\ RefIsUncStyle(path) /\ Len(RefUncParts(path)) = 1
                /\ ~RefLooksLikeDrive(RefUncParts(path)[1]))
        => (result.status = "error" /\ result.error = "ValueMissing")

(***************************************************************************)
(* C12.  For a UNC or extended-length UNC path with a server and a share   *)
(* name, get_volume_name succeeds with a volume that starts behind the     *)
(* prefix and spans server + separator + share without the separator that  *)
(* follows; directory_name_index points just past that separator, and      *)
(* equals path_length when the path ends right after the share name.       *)
(***************************************************************************)
C12_HasServerAndShare(p) ==
    /\ RefIsUncStyle(p)
    /\ Len(RefUncParts(p)) >= 2
    /\ RefUncParts(p)[1] # << >>
    /\ RefUncParts(p)[2] # << >>
    /\ ~RefLooksLikeDrive(RefUncParts(p)[1])

C12_UncVolumeSpansServerShare ==
    (VolumeCall /\ C12_HasServerAndShare(path))
        => LET parts  == RefUncParts(path)
               length == Len(parts[1]) + 1 + Len(parts[2])
           IN  /\ result.status = "ok"
               /\ ~result.volume_null
               /\ result.start = RefUncBase(path)
               /\ result.length = length
               /\ SubSeq(path, result.start + 1, result.start + result.length)
                      = parts[1] \o <<"\\">> \o parts[2]
               /\ result.directory_name_index
                      = IF Len(parts) = 2 THEN Len(path)
                        ELSE RefUncBase(path) + length + 1

C12_Witness ==
    /\ VolumeCall
    /\ path = <<"\\", "\\", "s", "\\", "h", "\\", "a">>
    /\ result.status = "ok"
    /\ result.start = 2
    /\ result.length = 3
    /\ result.directory_name_index = 6

(***************************************************************************)
(* C13.  VolumeName invariant: whenever get_volume_name succeeds with a    *)
(* volume, start + length <= directory_name_index <= path_length, with     *)
(* the length not wrapped around.  Stated as the claim; the code lets the  *)
(* length underflow for a path that is a prefix only.                      *)
(***************************************************************************)
C13_VolumeNameInvariant ==
    (VolumeCall /\ result.status = "ok" /\ ~result.volume_null)
        => /\ result.start + result.length <= result.directory_name_index
           /\ result.directory_name_index <= Len(path)

(***************************************************************************)
(* The sanitizer.  A character is its code point, 0..255.  A string is a   *)
(* sequence of runs, a run being count repetitions of a block of           *)
(* characters; an input string has blocks of one character.  The loops     *)
(* over the characters of the input are taken a run at a time, so that     *)
(* inputs as long as the Windows path ceiling can be written down.         *)
(***************************************************************************)
LIBCPATH_SEPARATOR(pf) == IF pf = "windows" THEN 92 ELSE 47
LIBCPATH_ESCAPE_CHARACTER(pf) == IF pf = "windows" THEN 94 ELSE 92

ReservedCharacters == {33, 36, 37, 38, 42, 43, 58, 59, 60, 62, 63, 124}
DeleteCharacter == 127
WindowsPathCeiling == 32767

Run(character, count) == [block |-> <<character>>, count |-> count]

RECURSIVE RunsLength(_)
\* The number of characters of a string.
RunsLength(runs) ==
    IF runs = << >> THEN 0
    ELSE Len(Head(runs).block) * Head(runs).count + RunsLength(Tail(runs))

\* Mutant of GetSanitizedCharacterSize: the control range reaches up to DEL.
GetSanitizedCharacterSizeWideControlRange(pf, character) ==
    IF character >= 0 /\ character <= 127 THEN 4
    ELSE IF character = LIBCPATH_ESCAPE_CHARACTER(pf) THEN 2
    ELSE 1

\* libcpath_path_get_sanitized_character_size
\* Mutant of GetSanitizedCharacterSize: the escape character is not doubled.
GetSanitizedCharacterSizeEscapeKept(pf, character) ==
    IF character >= 0 /\ character <= 31 THEN 4
    ELSE IF pf = "windows" /\ character = 47 THEN 4
    ELSE IF character \in ReservedCharacters \/ character = DeleteCharacter THEN 4
    ELSE 1

GetSanitizedCharacterSize(pf, character) ==
    IF character >= 0 /\ character <= 31 THEN 4
    ELSE IF character = LIBCPATH_ESCAPE_CHARACTER(pf) THEN 2
    ELSE IF pf = "windows" /\ character = 47 THEN 4
    ELSE IF character \in ReservedCharacters \/ character = DeleteCharacter THEN 4
    ELSE 1

\* The digit written for a nibble: `0` + nibble, or `a` + nibble - 10 when
\* the nibble is above 10.
NibbleCharacter(nibble) ==
    IF nibble > 10 THEN nibble + (97 - 10) ELSE nibble + 48

\* The characters libcpath_path_get_sanitized_character writes.
SanitizedCharacterBlock(pf, character, sanitized_character_size) ==
    IF sanitized_character_size = 1 THEN <<character>>
    ELSE IF sanitized_character_size = 2
    THEN <<LIBCPATH_ESCAPE_CHARACTER(pf), LIBCPATH_ESCAPE_CHARACTER(pf)>>
    ELSE <<LIBCPATH_ESCAPE_CHARACTER(pf), 120,
           NibbleCharacter((character \div 16) % 16),
           NibbleCharacter(character % 16)>>

\* Mutant of SanitizedCharacterSizeIn: the filename's separator test is left out.
SanitizedCharacterSizeInAnyName(pf, function, character) ==
    GetSanitizedCharacterSize(pf, character)

\* sanitized_character_size inside the loops of the two functions: only
\* get_sanitized_filename tests for the separator first.
SanitizedCharacterSizeIn(pf, function, character) ==
    IF function = "sanitize_filename" /\ character = LIBCPATH_SEPARATOR(pf)
    THEN 4
    ELSE GetSanitizedCharacterSize(pf, character)

RECURSIVE SanitizedSizeOfRuns(_, _, _)
\* The counting loop: the sum of the sanitized character sizes.
SanitizedSizeOfRuns(pf, function, runs) ==
    IF runs = << >> THEN 0
    ELSE SizeAdd(Head(runs).count
                     * SanitizedCharacterSizeIn(pf, function, Head(runs).block[1]),
                 SanitizedSizeOfRuns(pf, function, Tail(runs)))

RECURSIVE LastSeparatorIndex(_, _, _)
\* last_path_segment_seperator_index after the counting loop; 0 when the
\* path has no separator.  from is the index of the first character of runs.
LastSeparatorIndex(pf, runs, from) ==
    IF runs = << >> THEN 0
    ELSE LET later == LastSeparatorIndex(pf, Tail(runs), from + Head(runs).count)
         IN  IF later # 0 THEN later
             ELSE IF Head(runs).block[1] = LIBCPATH_SEPARATOR(pf)
             THEN from + Head(runs).count - 1
             ELSE 0

RECURSIVE WriteSanitizedRuns(_, _, _, _, _, _)
\* The write loop.  get_sanitized_character refuses a character when
\* sanitized_character_size > sanitized_path_size or
\* sanitized_path_index > sanitized_path_size - sanitized_character_size, so
\* of a run ( size - index ) / character size characters fit at most.
WriteSanitizedRuns(pf, function, runs, size, index, written) ==
    IF runs = << >> THEN [failed |-> FALSE, index |-> index, written |-> written]
    ELSE LET run       == Head(runs)
             character == run.block[1]
             each      == SanitizedCharacterSizeIn(pf, function, character)
             fit       == IF each > size THEN 0 ELSE (size - index) \div each
             count     == IF run.count <= fit THEN run.count ELSE fit
             block     == SanitizedCharacterBlock(pf, character, each)
             now       == IF count = 0 THEN written
                          ELSE Append(written, [block |-> block, count |-> count])
         IN  IF count < run.count
             THEN [failed |-> TRUE, index |-> index + count * each, written |-> now]
             ELSE WriteSanitizedRuns(pf, function, Tail(runs), size,
                                     index + count * each, now)

\* The one buffer of the sanitizers and what their on_error frees.
SanitizeBuffers == {"safe_sanitized_path"}
SanitizeOnErrorFrees == {"safe_sanitized_path"}

SanitizeError(error, slot, sanitized_null) ==
    [status |-> "error", error |-> error, sanitized_null |-> sanitized_null,
     sanitized_size |-> slot.size, written |-> << >>, sanitized_index |-> 0,
     unfreed |-> SanitizeBuffers \ SanitizeOnErrorFrees]

\* libcpath_path_get_sanitized_filename and libcpath_path_get_sanitized_path.
\* Neither assigns the output size before it succeeds.  Writing the
\* terminator at an index outside the buffer is undefined behaviour.
GetSanitized(pf, function, runs, slot) ==
    IF RunsLength(runs) = 0
    THEN {SanitizeError("ValueZeroOrLess", slot, ~slot.set)}
    ELSE IF RunsLength(runs) > SSIZE_MAX - 1
    THEN {SanitizeError("ValueExceedsMaximum", slot, ~slot.set)}
    ELSE IF slot.set
    THEN {SanitizeError("ValueAlreadySet", slot, FALSE)}
    ELSE
    LET counted == SizeAdd(1, SanitizedSizeOfRuns(pf, function, runs))
        capped  == pf = "windows" /\ function = "sanitize_path"
        size    == IF capped /\ counted > WindowsPathCeiling
                   THEN WindowsPathCeiling ELSE counted
        pass    == WriteSanitizedRuns(pf, function, runs, size, 0, << >>)
        wrote   == [status |-> "ok", error |-> "none", sanitized_null |-> FALSE,
                    sanitized_size |-> size, written |-> pass.written,
                    sanitized_index |-> pass.index, unfreed |-> {}]
    IN  IF counted > SSIZE_MAX
        THEN {SanitizeError("ValueExceedsMaximum", slot, TRUE)}
        ELSE IF capped /\ LastSeparatorIndex(pf, runs, 0) > WindowsPathCeiling
        THEN {SanitizeError("ValueOutOfBounds", slot, TRUE)}
        ELSE IF pass.failed
        THEN {SanitizeError("GetFailed", slot, TRUE)}
        ELSE IF pass.index >= size
        THEN {wrote, [wrote EXCEPT !.status = "crash"]}
        ELSE {wrote}

(***************************************************************************)
(* Inputs of the sanitizer: every single character; short strings over     *)
(* plain, reserved, control, escape and separator characters (`a`, `!`,    *)
(* `:`, line feed, `\`, `^`, `/`, DEL); and strings of a few runs whose    *)
(* lengths lie around the Windows ceiling and around a quarter of it.      *)
(***************************************************************************)
MaxSanitizeLen == 3
MaxLongRuns == 2

SanitizeAlphabet == {97, 33, 58, 10, 92, 94, 47, 127}
LongRunCharacters == {97, 33, 92, 47}
LongRunCounts == {1, 8191, 8192, WindowsPathCeiling - 2, WindowsPathCeiling - 1,
                  WindowsPathCeiling, WindowsPathCeiling + 1}

RunsOf(characters) == [i \in 1..Len(characters) |-> Run(characters[i], 1)]

SanitizeInputs ==
    {<< >>}
        \cup {<<Run(character, 1)>> : character \in 0..255}
        \cup {RunsOf(characters) :
                  characters \in SeqsUpTo(SanitizeAlphabet, MaxSanitizeLen)}
        \cup SeqsUpTo({Run(character, count) : character \in LongRunCharacters,
                                               count \in LongRunCounts},
                      MaxLongRuns)

SanitizeFunctions == {"sanitize_filename", "sanitize_path"}

InitSanitize ==
    /\ platform \in {"posix", "windows"}
    /\ cwd = << >>
    /\ driveDirs = << >>
    /\ op \in SanitizeFunctions
    /\ path \in SanitizeInputs
    /\ entry = EntryUnset
    /\ pc = "start"
    /\ result = NoResult

\* A call of get_sanitized_filename or get_sanitized_path.
GetSanitizedCall ==
    /\ pc = "start"
    /\ op \in SanitizeFunctions
    /\ \E r \in GetSanitized(platform, op, path, entry) : result' = r
    /\ pc' = "done"
    /\ UNCHANGED <<platform, cwd, driveDirs, op, path, entry>>

NextSanitize == GetSanitizedCall

SpecSanitize == InitSanitize /\ [][NextSanitize]_vars

(***************************************************************************)
(* Reference notions for the sanitizer, written from the escaping policy.  *)
(***************************************************************************)
SanitizeCall == pc = "done" /\ op \in SanitizeFunctions
SanitizeSucceeded == SanitizeCall /\ result.status = "ok"

RefEscape == IF platform = "windows" THEN 94 ELSE 92
RefSeparator == IF platform = "windows" THEN 92 ELSE 47
\* lowercase hexadecimal digit of a nibble: `0`..`9`, `a`..`f`
RefHexDigit(nibble) == IF nibble < 10 THEN 48 + nibble ELSE 97 + (nibble - 10)
RefHexEscape(character) ==
    <<RefEscape, 120, RefHexDigit(character \div 16), RefHexDigit(character % 16)>>

RefIsControlOrReserved(character) ==
    \/ character \in 0..31
    \/ character = 127
    \/ character \in {33, 36, 37, 38, 42, 43, 58, 59, 60, 62, 63, 124}

\* Characters with an escaped form in the function called.
RefIsEscapedHere(character) ==
    \/ RefIsControlOrReserved(character)
    \/ character = RefEscape
    \/ platform = "windows" /\ character = 47
    \/ op = "sanitize_filename" /\ character = RefSeparator

RefSizeOf(character) ==
    IF character = RefEscape THEN 2
    ELSE IF RefIsEscapedHere(character) THEN 4
    ELSE 1

RECURSIVE RefSanitizedLength(_)
RefSanitizedLength(runs) ==
    IF runs = << >> THEN 0
    ELSE Head(runs).count * RefSizeOf(Head(runs).block[1])
             + RefSanitizedLength(Tail(runs))

\* The output has one run for each run of the input.
RunForRun == Len(result.written) = Len(path)
             /\ \A i \in 1..Len(path) : result.written[i].count = path[i].count

\* Below the Windows ceiling of get_sanitized_path (no ceiling elsewhere).
RefWithinCeiling ==
    (platform = "windows" /\ op = "sanitize_path")
        => RefSanitizedLength(path) + 1 <= 32767

(***************************************************************************)
(* C14.  Escape well-formedness: on success every control character,       *)
(* DEL and every reserved character of the input is written as the escape  *)
(* character, `x` and the two lowercase hexadecimal digits of its code     *)
(* point, and the escape character as two escape characters.  Stated as    *)
(* the claim; the code writes `:` for a nibble of value 10.                *)
(***************************************************************************)
C14_EscapeWellFormed ==
    (SanitizeSucceeded /\ RefWithinCeiling)
        => /\ RunForRun
           /\ \A i \in 1..Len(path) :
                  LET character == path[i].block[1]
                  IN  /\ RefIsControlOrReserved(character)
                            => result.written[i].block = RefHexEscape(character)
                      /\ character = RefEscape
                            => result.written[i].block = <<RefEscape, RefEscape>>

(***************************************************************************)
(* C15, as the claim states it.  Both sanitizers return unchanged, with    *)
(* size = length + 1, every non-empty string whose characters are all      *)
(* outside the control set, the reserved set and the escape character.     *)
(* The code escapes the separator in a filename and `/` on Windows.        *)
(***************************************************************************)
C15_SafeForClaim(runs) ==
    /\ RunsLength(runs) >= 1
    /\ \A i \in 1..Len(runs) :
           /\ ~RefIsControlOrReserved(runs[i].block[1])
           /\ runs[i].block[1] # RefEscape

C15_IdentityAsClaimed ==
    (SanitizeCall /\ C15_SafeForClaim(path) /\ RefWithinCeiling)
        => /\ result.status = "ok"
           /\ result.written = path
           /\ result.sanitized_size = RunsLength(path) + 1

(***************************************************************************)
(* C15, amended.  Both sanitizers return unchanged, with size = length +   *)
(* 1, every non-empty string whose characters have no escaped form in the  *)
(* function called: outside the control set, the reserved set and the      *)
(* escape character, and also not `/` on Windows and not the separator     *)
(* for sanitize_filename; for the Windows sanitize_path, length + 1 is     *)
(* within the ceiling.                                                     *)
(***************************************************************************)
C15_SafeHere(runs) ==
    /\ RunsLength(runs) >= 1
    /\ \A i \in 1..Len(runs) : ~RefIsEscapedHere(runs[i].block[1])

C15_IdentityOnSafeInput ==
    (SanitizeCall /\ C15_SafeHere(path) /\ RefWithinCeiling)
        => /\ result.status = "ok"
           /\ result.written = path
           /\ result.sanitized_size = RunsLength(path) + 1

C15_Witness ==
    /\ SanitizeSucceeded
    /\ op = "sanitize_path"
    /\ platform = "posix"
    /\ path = <<Run(97, 1), Run(47, 1), Run(97, 1)>>
    /\ result.written = path
    /\ result.sanitized_size = 4

(***************************************************************************)
(* C16.  On success sanitize_filename writes every separator character as  *)
(* the 4-character hex escape of its code point, and sanitize_path writes  *)
(* it unchanged as 1 character.                                            *)
(***************************************************************************)
C16_SeparatorByFunction ==
    (SanitizeSucceeded /\ RefWithinCeiling)
        => /\ RunForRun
           /\ \A i \in 1..Len(path) :
                  path[i].block[1] = RefSeparator
                      => result.written[i].block
                            = IF op = "sanitize_filename"
                              THEN RefHexEscape(RefSeparator)
                              ELSE <<RefSeparator>>

C16_Witness ==
    /\ SanitizeSucceeded
    /\ op = "sanitize_filename"
    /\ platform = "windows"
    /\ path = <<Run(97, 1), Run(92, 1), Run(97, 1)>>
    /\ result.written[2].block = <<94, 120, 53, 99>>
    /\ result.sanitized_size = 7

(***************************************************************************)
(* C17.  Sanitizer size invariant: whenever sanitize_filename or           *)
(* sanitize_path succeeds, the returned size is 1 plus the sum of the      *)
(* sanitized sizes of the characters, the write pass has written size - 1  *)
(* characters and the terminator is written at index size - 1.  Stated as  *)
(* the claim; the Windows ceiling of sanitize_path breaks it.              *)
(***************************************************************************)
C17_SanitizerSizeInvariant ==
    SanitizeSucceeded
        => /\ result.sanitized_size = 1 + RefSanitizedLength(path)
           /\ RunsLength(result.written) = result.sanitized_size - 1
           /\ result.sanitized_index = result.sanitized_size - 1

(***************************************************************************)
(* C18.  Windows sanitize_path ceiling of 32767: when the last separator   *)
(* of the path lies beyond the ceiling the call fails with a value-out-of- *)
(* bounds error; otherwise, when the uncapped sanitized size exceeds the   *)
(* ceiling, the call succeeds with a size of exactly the ceiling and the   *)
(* terminator inside the buffer.  Stated as the claim; the code's write    *)
(* pass fails, or puts the terminator behind the buffer.                   *)
(***************************************************************************)
RefLastSeparator(runs) ==
    LET separators == {i \in 1..Len(runs) : runs[i].block[1] = 92}
    IN  IF separators = {} THEN 0
        ELSE LET last == CHOOSE i \in separators : \A j \in separators : j <= i
             IN  RunsLength(SubSeq(runs, 1, last)) - 1

C18_WindowsCeiling ==
    (SanitizeCall /\ platform = "windows" /\ op = "sanitize_path"
                  /\ RunsLength(path) >= 1)
        => IF RefLastSeparator(path) > 32767
           THEN result.status = "error" /\ result.error = "ValueOutOfBounds"
           ELSE RefSanitizedLength(path) + 1 > 32767
                    => /\ result.status = "ok"
                       /\ result.sanitized_size = 32767
                       /\ result.sanitized_index <= result.sanitized_size - 1

(***************************************************************************)
(* libcpath_path_join.  Strings are sequences of characters as in          *)
(* get_full_path; the path argument of the call is the pair of the         *)
(* directory name and the filename.                                        *)
(***************************************************************************)
SeparatorOf(pf) == IF pf = "windows" THEN "\\" ELSE "/"

\* Mutant of StripTrailingSeparators: one trailing separator is removed.
StripOneTrailingSeparator(directory_name, separator) ==
    IF Len(directory_name) > 0 /\ directory_name[Len(directory_name)] = separator
    THEN Len(directory_name) - 1
    ELSE Len(directory_name)

RECURSIVE StripTrailingSeparators(_, _)
\* directory_name_length after the first while loop
StripTrailingSeparators(directory_name, separator) ==
    IF Len(directory_name) > 0 /\ directory_name[Len(directory_name)] = separator
    THEN StripTrailingSeparators(SubSeq(directory_name, 1, Len(directory_name) - 1),
                                 separator)
    ELSE Len(directory_name)

RECURSIVE SkipLeadingSeparators(_, _, _)
\* filename_index after the second while loop
SkipLeadingSeparators(filename, separator, filename_index) ==
    IF Len(filename) - filename_index > 0 /\ At(filename, filename_index) = separator
    THEN SkipLeadingSeparators(filename, separator, filename_index + 1)
    ELSE filename_index

JoinError(error, path_null, path_size) ==
    [status |-> "error", error |-> error, path_null |-> path_null,
     path_size |-> path_size, written |-> << >>, unfreed |-> {}]

Join(pf, directory_name, filename, slot) ==
    IF slot.set THEN {JoinError("ValueAlreadySet", FALSE, slot.size)}
    ELSE IF Len(directory_name) > SSIZE_MAX \/ Len(filename) > SSIZE_MAX
    THEN {JoinError("ValueExceedsMaximum", TRUE, slot.size)}
    ELSE
    LET directory_name_length == StripTrailingSeparators(directory_name,
                                                         SeparatorOf(pf))
        filename_index  == SkipLeadingSeparators(filename, SeparatorOf(pf), 0)
        filename_length == Len(filename) - filename_index
        path_size == SizeAdd(SizeAdd(directory_name_length, filename_length), 2)
        written   == SubSeq(directory_name, 1, directory_name_length)
                     \o <<SeparatorOf(pf)>>
                     \o SubSeq(filename, filename_index + 1, Len(filename))
    IN  IF path_size > AllocMax THEN {JoinError("Memory", TRUE, 0)}
        ELSE {[status |-> "ok", error |-> "none", path_null |-> FALSE,
               path_size |-> path_size, written |-> written, unfreed |-> {}]}

MaxJoinLen == 3
JoinAlphabet == {"/", "\\", "a", "."}
JoinStrings == {<< >>} \cup SeqsUpTo(JoinAlphabet, MaxJoinLen)
\* the documented calls: `/a/b/` with `/c`, and `/a/b` with `c`
JoinExamples ==
    {[directory_name |-> <<"/", "a", "/", "b", "/">>, filename |-> <<"/", "c">>],
     [directory_name |-> <<"/", "a", "/", "b">>, filename |-> <<"c">>]}
JoinInputs ==
    JoinExamples \cup [directory_name : JoinStrings, filename : JoinStrings]

InitJoin ==
    /\ platform \in {"posix", "windows"}
    /\ cwd = << >>
    /\ driveDirs = << >>
    /\ op = "join"
    /\ path \in JoinInputs
    /\ entry = EntryUnset
    /\ pc = "start"
    /\ result = NoResult

\* A call of libcpath_path_join.
JoinCall ==
    /\ pc = "start"
    /\ op = "join"
    /\ \E r \in Join(platform, path.directory_name, path.filename, entry) :
           result' = r
    /\ pc' = "done"
    /\ UNCHANGED <<platform, cwd, driveDirs, op, path, entry>>

NextJoin == JoinCall

SpecJoin == InitJoin /\ [][NextJoin]_vars

(***************************************************************************)
(* C19.  join is a textual splice: the result is D + separator + F, D      *)
(* being the directory without its trailing separators and F the filename  *)
(* without its leading separators, everything else untouched, and          *)
(* path_size = length(D) + length(F) + 2; zero lengths are allowed.        *)
(***************************************************************************)
RefAllSeparators(str, from, to) ==
    \A i \in from..to : str[i] = SeparatorOf(platform)

\* D: the longest prefix not ending in a separator
RefDirectoryPart(str) ==
    LET keep == CHOOSE n \in 0..Len(str) :
                    /\ RefAllSeparators(str, n + 1, Len(str))
                    /\ n > 0 => str[n] # SeparatorOf(platform)
    IN  SubSeq(str, 1, keep)

\* F: the longest suffix not starting with a separator
RefFilenamePart(str) ==
    LET skip == CHOOSE n \in 0..Len(str) :
                    /\ RefAllSeparators(str, 1, n)
                    /\ n < Len(str) => str[n + 1] # SeparatorOf(platform)
    IN  SubSeq(str, skip + 1, Len(str))

JoinDone == pc = "done" /\ op = "join"

C19_JoinIsTextualSplice ==
    (JoinDone /\ ~entry.set)
        => LET D == RefDirectoryPart(path.directory_name)
               F == RefFilenamePart(path.filename)
           IN  /\ result.status = "ok"
               /\ result.written = D \o <<SeparatorOf(platform)>> \o F
               /\ result.path_size = Len(D) + Len(F) + 2
               /\ Len(result.written) + 1 = result.path_size

C19_Witness ==
    /\ JoinDone
    /\ platform = "posix"
    /\ path.directory_name = <<"/", "a", "/", "b", "/">>
    /\ path.filename = <<"/", "c">>
    /\ result.status = "ok"
    /\ result.written = <<"/", "a", "/", "b", "/", "c">>
    /\ result.path_size = 7

(***************************************************************************)
(* The two working-directory functions called on their own.                *)
(***************************************************************************)
\* The volume argument: none, or the name of a drive (`Z:` does not exist).
ByVolumeNames == {<<"C", ":">>, <<"D", ":">>, <<"Z", ":">>}
WholeString(name) == [ok |-> TRUE, null |-> FALSE, start |-> 0,
                      length |-> Len(name), directory_name_index |-> Len(name)]

CwdCallInputs == [faults : {NoFaults, [NoFaults EXCEPT !.read = TRUE]}]
ByVolumeCallInputs ==
    [volume_null : {TRUE}, volume_name : {<< >>}, faults : Faults]
        \cup [volume_null : {FALSE}, volume_name : ByVolumeNames, faults : Faults]

\* A call of get_current_working_directory.
GetCurrentWorkingDirectoryCall ==
    /\ pc = "start"
    /\ op = "get_current_working_directory"
    /\ LET out == GetCurrentWorkingDirectory(platform, cwd, entry, path.faults.read)
       IN  result' = [status |-> IF out.ok THEN "ok" ELSE "error",
                      error |-> out.error, directory_null |-> out.directory_null,
                      directory_size |-> out.directory_size,
                      directory |-> out.directory, unfreed |-> {}]
    /\ pc' = "done"
    /\ UNCHANGED <<platform, cwd, driveDirs, op, path, entry>>

\* A call of get_current_working_directory_by_volume (Windows build).
GetCurrentWorkingDirectoryByVolumeCall ==
    /\ pc = "start"
    /\ platform = "windows"
    /\ op = "get_current_working_directory_by_volume"
    /\ LET out == ByVolumeWithProvider(path.volume_null, path.volume_name,
                                       WholeString(path.volume_name),
                                       [cwd |-> cwd, driveDirs |-> driveDirs],
                                       entry, path.faults)
       IN  /\ result' = [status |-> IF out.ok THEN "ok" ELSE "error",
                         error |-> out.error,
                         directory_null |-> out.directory_null,
                         directory_size |-> out.directory_size,
                         directory |-> out.directory, calls |-> out.calls,
                         unfreed |-> out.unfreed]
           /\ cwd' = out.cwd
           /\ driveDirs' = out.driveDirs
    /\ pc' = "done"
    /\ UNCHANGED <<platform, op, path, entry>>

(***************************************************************************)
(* Every operation with an output slot, called with the slot in any of     *)
(* its states before the call.                                             *)
(***************************************************************************)
InitOutputs ==
    /\ platform \in {"posix", "windows"}
    /\ entry \in Entries
    /\ \/ /\ platform = "posix"
          /\ cwd \in PosixWorkingDirectories
          /\ driveDirs = << >>
          /\ \/ op = "get_full_path" /\ path \in PosixPaths
             \/ op = "get_current_working_directory" /\ path \in CwdCallInputs
       \/ /\ platform = "windows"
          /\ cwd \in WinWorkingDirectories
          /\ driveDirs = [C |-> cwd, D |-> WinOtherDriveDirectory]
          /\ \/ op = "get_full_path" /\ path \in WinPaths
             \/ op = "get_current_working_directory" /\ path \in CwdCallInputs
             \/ op = "get_current_working_directory_by_volume"
                /\ path \in ByVolumeCallInputs
       \/ /\ cwd = << >>
          /\ driveDirs = << >>
          /\ \/ op \in SanitizeFunctions /\ path \in SanitizeInputs
             \/ op = "join" /\ path \in JoinInputs
    /\ pc = "start"
    /\ result = NoResult

NextOutputs ==
    \/ GetFullPathPosix
    \/ GetFullPathWindows
    \/ GetSanitizedCall
    \/ JoinCall
    \/ GetCurrentWorkingDirectoryCall
    \/ GetCurrentWorkingDirectoryByVolumeCall

SpecOutputs == InitOutputs /\ [][NextOutputs]_vars

(***************************************************************************)
(* The output slot, the output size and the buffers at the return.         *)
(***************************************************************************)
OutputCall ==
    /\ pc = "done"
    /\ op \in {"get_full_path", "join", "get_current_working_directory",
               "get_current_working_directory_by_volume"} \cup SanitizeFunctions

SlotNullAtReturn ==
    IF op = "get_full_path" THEN result.full_path_null
    ELSE IF op \in SanitizeFunctions THEN result.sanitized_null
    ELSE IF op = "join" THEN result.path_null
    ELSE result.directory_null

SizeAtReturn ==
    IF op = "get_full_path" THEN result.full_path_size
    ELSE IF op \in SanitizeFunctions THEN result.sanitized_size
    ELSE IF op = "join" THEN result.path_size
    ELSE result.directory_size

ReturnedError == OutputCall /\ result.status = "error"

GuardPosixStrings == {JoinWith(segments, "/") :
                          segments \in SeqsUpTo(PosixSegmentChoices, 2)}
GuardWinStrings == {prefix \o body : prefix \in WinPrefixes,
                                     body \in {<< >>, <<"a">>, <<".", ".">>}}

GuardInputs(strings) ==
    {[string |-> string, path_length |-> path_length] :
        string \in strings, path_length \in {0, SSIZE_MAX, SizeModulus - 1}}
    \cup {[string |-> string, path_length |-> Len(string)] : string \in strings}

InitGuards ==
    /\ platform \in {"posix", "windows"}
    /\ entry \in Entries
    /\ \/ /\ platform = "posix"
          /\ cwd \in PosixWorkingDirectories
          /\ driveDirs = << >>
          /\ path \in GuardInputs(GuardPosixStrings)
       \/ /\ platform = "windows"
          /\ cwd \in WinWorkingDirectories
          /\ driveDirs = [C |-> cwd, D |-> WinOtherDriveDirectory]
          /\ path \in GuardInputs(GuardWinStrings)
    /\ op = "get_full_path_with_length"
    /\ pc = "start"
    /\ result = NoResult

\* A call of get_full_path( path, path_length, full_path, full_path_size ).
GetFullPathWithLength ==
    /\ pc = "start"
    /\ op = "get_full_path_with_length"
    /\ IF GetFullPathGuard(path.path_length, entry) # "none"
       THEN result' = RejectedResult(GetFullPathGuard(path.path_length, entry),
                                     entry)
       ELSE \E r \in (IF platform = "posix"
                      THEN PosixGetFullPath(path.string, cwd)
                      ELSE WinGetFullPath(path.string,
                                          [cwd |-> cwd, driveDirs |-> driveDirs])) :
                result' = r
    /\ pc' = "done"
    /\ UNCHANGED <<platform, cwd, driveDirs, op, path, entry>>

NextGuards == GetFullPathWithLength

SpecGuards == InitGuards /\ [][NextGuards]_vars

RefLengthRejected(path_length) == path_length = 0 \/ path_length >= SSIZE_MAX

(***************************************************************************)
(* C21.  A call of get_full_path with a zero path length or a path length  *)
(* above the maximum fails with an invalid-argument error, and a call      *)
(* whose output slot is already populated fails with the already-set       *)
(* error; in each case the output slot and the output size at the return   *)
(* are what they were at the entry, the working directory of the process   *)
(* is what it was, and no collaborator was queried.                        *)
(***************************************************************************)
C21_GuardsLeaveEverything ==
    [][(/\ pc = "start"
        /\ op = "get_full_path_with_length"
        /\ RefLengthRejected(path.path_length) \/ entry.set)
       => /\ result'.status = "error"
          /\ result'.error = IF RefLengthRejected(path.path_length)
                             THEN "InvalidArgument" ELSE "ValueAlreadySet"
          /\ result'.full_path_null = ~entry.set
          /\ result'.full_path_size = entry.size
          /\ result'.cwd_calls = << >>
          /\ result'.unfreed = {}
          /\ cwd' = cwd
          /\ driveDirs' = driveDirs]_vars

C21_Witness ==
    /\ pc = "done"
    /\ op = "get_full_path_with_length"
    /\ entry.set
    /\ path.path_length = Len(path.string)
    /\ path.path_length > 0
    /\ result.error = "ValueAlreadySet"
    /\ ~result.full_path_null
    /\ result.full_path_size = entry.size

(***************************************************************************)
(* by_volume with a volume: the provider calls and the working directory   *)
(* of the process.                                                         *)
(***************************************************************************)
ByVolumeOrder == <<"get", "chdir", "get", "chdir">>

ByVolumeStep ==
    /\ pc = "start"
    /\ op = "get_current_working_directory_by_volume"
    /\ ~path.volume_null

\* the save succeeds and the volume is a drive the provider can change to
RefSwitchSucceeds ==
    /\ ~path.faults.save
    /\ ~path.faults.switch
    /\ path.volume_name[1] \in DOMAIN driveDirs

RefSwitchFails ==
    /\ ~path.faults.save
    /\ path.faults.switch \/ path.volume_name[1] \notin DOMAIN driveDirs

(***************************************************************************)
(* C22.  With a volume given, by_volume issues its provider calls in the   *)
(* order save, change to the volume, read, change back.  Once the switch   *)
(* succeeded every return, the success and the failure of the read alike,  *)
(* comes after a change back was issued, and the working directory of the  *)
(* process at the return equals the one at the entry whenever that change  *)
(* back succeeds; when the switch itself failed the working directory is   *)
(* untouched.                                                              *)
(***************************************************************************)
C22_WorkingDirectoryRestored ==
    [][ByVolumeStep
       => /\ \E n \in 0..4 : result'.calls = SubSeq(ByVolumeOrder, 1, n)
          /\ RefSwitchSucceeds => result'.calls = ByVolumeOrder
          /\ RefSwitchSucceeds /\ ~path.faults.restore => cwd' = cwd
          /\ RefSwitchFails => /\ result'.calls = SubSeq(ByVolumeOrder, 1, 2)
                               /\ cwd' = cwd]_vars

\* the read fails on the other drive and the change back is still made
C22_Witness ==
    /\ pc = "done"
    /\ op = "get_current_working_directory_by_volume"
    /\ ~path.volume_null
    /\ path.volume_name = <<"D", ":">>
    /\ path.faults = [NoFaults EXCEPT !.read = TRUE]
    /\ ~entry.set
    /\ result.status = "error"
    /\ result.calls = ByVolumeOrder
    /\ cwd = driveDirs.C
    /\ cwd # driveDirs.D

\* by_volume returned after the read succeeded and the change back failed
ChangeBackFailedAfterRead ==
    /\ pc = "done"
    /\ op = "get_current_working_directory_by_volume"
    /\ ~path.volume_null
    /\ RefSwitchSucceeds
    /\ ~entry.set
    /\ ~path.faults.read
    /\ path.faults.restore

(***************************************************************************)
(* C23, as the claim states it.  When the read succeeded and the change    *)
(* back fails, by_volume reports the failure and the output slot still     *)
(* holds the directory that was read.                                      *)
(***************************************************************************)
C23_ReadValueKept ==
    ChangeBackFailedAfterRead
        => /\ result.status = "error"
           /\ ~result.directory_null
           /\ result.directory = driveDirs[path.volume_name[1]]

(***************************************************************************)
(* C23, amended.  When the read succeeded and the change back fails,       *)
(* by_volume reports the failure and hands nothing to the caller: the      *)
(* directory that was read is freed, the output slot is null and the       *)
(* output size is zero; the process is left in the directory of the        *)
(* volume.                                                                 *)
(***************************************************************************)
C23_ReadValueDropped ==
    ChangeBackFailedAfterRead
        => /\ result.status = "error"
           /\ result.error = "SetFailed"
           /\ result.directory_null
           /\ result.directory_size = 0
           /\ result.directory = << >>
           /\ result.unfreed = {}
           /\ cwd = driveDirs[path.volume_name[1]]

C23_Witness ==
    /\ ChangeBackFailedAfterRead
    /\ path.volume_name = <<"D", ":">>
    /\ path.faults = [NoFaults EXCEPT !.restore = TRUE]
    /\ result.status = "error"
    /\ result.directory_null
    /\ result.calls = ByVolumeOrder
    /\ cwd = driveDirs.D

(***************************************************************************)
(* Two threads of one process inside by_volume, each with a volume of its  *)
(* own, interleaved at the provider calls.  The working directory is the   *)
(* process's, so every thread reads and changes the same one.  With        *)
(* op = "by_volume_locked" the callers hold one lock around the call.      *)
(* pc, path and result are per thread here.                                *)
(***************************************************************************)
Threads == {"t1", "t2"}

\* The caller's lock: a thread enters only when no other thread is inside.
MayEnterUnlocked(t) == TRUE

MayEnter(t) ==
    op = "by_volume_locked" => \A u \in Threads \ {t} : pc[u] \in {"start", "done"}

NoThreadResult == [saved |-> << >>, directory_null |-> TRUE, directory |-> << >>,
                   status |-> "none"]

InitThreads ==
    /\ platform = "windows"
    /\ cwd \in WinWorkingDirectories
    /\ driveDirs = [C |-> cwd, D |-> WinOtherDriveDirectory]
    /\ op \in {"by_volume_unlocked", "by_volume_locked"}
    /\ path \in {[t1 |-> <<"C", ":">>, t2 |-> <<"D", ":">>],
                 [t1 |-> <<"D", ":">>, t2 |-> <<"C", ":">>]}
    /\ entry = EntryUnset
    /\ pc = [t \in Threads |-> "start"]
    /\ result = [t \in Threads |-> NoThreadResult]

\* get_current_working_directory into current_volume_working_directory
ByVolumeSave(t) ==
    /\ pc[t] = "start"
    /\ MayEnter(t)
    /\ result' = [result EXCEPT ![t].saved = cwd]
    /\ pc' = [pc EXCEPT ![t] = "saved"]
    /\ UNCHANGED <<platform, cwd, driveDirs, op, path, entry>>

\* change_directory to the volume
ByVolumeSwitch(t) ==
    /\ pc[t] = "saved"
    /\ LET switched == ChangeDirectory([cwd |-> cwd, driveDirs |-> driveDirs],
                                       path[t])
       IN  /\ cwd' = switched.cwd
           /\ driveDirs' = switched.driveDirs
    /\ pc' = [pc EXCEPT ![t] = "switched"]
    /\ UNCHANGED <<platform, op, path, entry, result>>

\* get_current_working_directory into the caller's slot
ByVolumeRead(t) ==
    /\ pc[t] = "switched"
    /\ LET read == GetCurrentWorkingDirectory("windows", cwd, entry, FALSE)
       IN  result' = [result EXCEPT ![t].directory_null = read.directory_null,
                                    ![t].directory = read.directory]
    /\ pc' = [pc EXCEPT ![t] = "read"]
    /\ UNCHANGED <<platform, cwd, driveDirs, op, path, entry>>

\* change_directory back to the saved directory, and the return
ByVolumeRestore(t) ==
    /\ pc[t] = "read"
    /\ LET back == ChangeDirectory([cwd |-> cwd, driveDirs |-> driveDirs],
                                   result[t].saved)
       IN  /\ cwd' = back.cwd
           /\ driveDirs' = back.driveDirs
    /\ result' = [result EXCEPT ![t].status = "ok"]
    /\ pc' = [pc EXCEPT ![t] = "done"]
    /\ UNCHANGED <<platform, op, path, entry>>

NextThreads ==
    \E t \in Threads :
        \/ ByVolumeSave(t)
        \/ ByVolumeSwitch(t)
        \/ ByVolumeRead(t)
        \/ ByVolumeRestore(t)

SpecThreads == InitThreads /\ [][NextThreads]_vars

\* Every initial working directory is on drive C and no step changes the
\* directory a drive has, so driveDirs.C is the directory at the entry.
RefDirectoryAtEntry == driveDirs.C
RefDirectoryOfVolume(t) == driveDirs[path[t][1]]
BothReturned == \A t \in Threads : pc[t] = "done"
ReturnedOtherVolume(t) ==
    /\ pc[t] = "done"
    /\ result[t].directory # RefDirectoryOfVolume(t)
    /\ \E u \in Threads \ {t} : result[t].directory = RefDirectoryOfVolume(u)

(***************************************************************************)
(* C24.  by_volume is not safe under concurrent use.  With the calls of    *)
(* the two threads serialized by one lock, every caller returns the        *)
(* directory of its own volume and the working directory of the process    *)
(* after both returned is the one before the calls.  Without the lock      *)
(* there is an interleaving (the witness) after which a caller holds the   *)
(* directory of the other caller's volume and the working directory of     *)
(* the process differs from the one before the calls.                      *)
(***************************************************************************)
C24_SerializedCallsAreSafe ==
    op = "by_volume_locked"
        => /\ \A t \in Threads :
                  pc[t] = "done" => result[t].directory = RefDirectoryOfVolume(t)
           /\ BothReturned => cwd = RefDirectoryAtEntry
           /\ driveDirs.D = WinOtherDriveDirectory

C24_Witness ==
    /\ op = "by_volume_unlocked"
    /\ BothReturned
    /\ \E t \in Threads : ReturnedOtherVolume(t)
    /\ cwd # RefDirectoryAtEntry
    /\ driveDirs.D = WinOtherDriveDirectory
    /\ driveDirs.C \in WinWorkingDirectories

(***************************************************************************)
(* `..` after a `..` that cleared the only surviving name of the input.    *)
(***************************************************************************)
\* Segment i of segments is a `..` that removes the only name surviving
\* before it, and the next segment that is not empty or `.` is a `..` too.
RefClearsOnlyNameThenDotDot(segments) ==
    \E i \in 1..Len(segments) : \E j \in (i + 1)..Len(segments) :
        /\ segments[i] = RefDotDot
        /\ Len(RefResolve(SubSeq(segments, 1, i - 1), << >>)) = 1
        /\ ~RefHasSurplus(SubSeq(segments, 1, i - 1), 0)
        /\ segments[j] = RefDotDot
        /\ \A k \in (i + 1)..(j - 1) : segments[k] \in {<< >>, RefDot}

\* The number of names of the working directory.
RefDepth(directory) == Len(RefResolve(RefSplit(directory, "/"), << >>))

(***************************************************************************)
(* C25.  When a `..` clears the only surviving name of the input, 'last    *)
(* used' becomes none and a following `..` is handled like a `..` at the   *)
(* start of the path: it pops a segment of the working directory for a     *)
(* relative path and is absorbed for an absolute one, and get_full_path    *)
(* succeeds with the normal form (POSIX `a/../../b` in `/a/b` gives        *)
(* `/a/b`, `/a/../../b` gives `/b`).  Stated for working directories deep  *)
(* enough for every `..` of a relative path.                               *)
(***************************************************************************)
C25_DotDotAfterClearedName ==
    (/\ PosixCall
     /\ RefClearsOnlyNameThenDotDot(RefSplit(path, "/"))
     /\ path[1] # "/" => ~RefHasSurplus(RefSplit(path, "/"), RefDepth(cwd)))
        => /\ result.status = "ok"
           /\ result.full_path = IF path[1] = "/" THEN RefNormalize(path)
                                 ELSE RefNormalize(cwd \o <<"/">> \o path)

(***************************************************************************)
(* POSIX get_full_path on paths whose segments include names that begin    *)
(* with dots.                                                              *)
(***************************************************************************)
MaxDotSegs == 4

DotSegmentChoices == {<< >>, <<".">>, <<".", ".">>, <<"a">>, <<".", "a">>,
                      <<".", ".", "x">>, <<".", ".", ".">>}

DotPaths == {JoinWith(segments, "/") :
                 segments \in SeqsUpTo(DotSegmentChoices, MaxDotSegs)}

InitSegments ==
    /\ platform = "posix"
    /\ entry = EntryUnset
    /\ cwd \in PosixWorkingDirectories
    /\ driveDirs = << >>
    /\ op = "get_full_path"
    /\ path \in DotPaths
    /\ pc = "start"
    /\ result = NoResult

NextSegments == GetFullPathPosix

SpecSegments == InitSegments /\ [][NextSegments]_vars

RECURSIVE RefIsSubsequence(_, _)
\* part is what is left of whole after dropping some of its elements
RefIsSubsequence(part, whole) ==
    IF part = << >> THEN TRUE
    ELSE IF whole = << >> THEN FALSE
    ELSE IF Head(part) = Head(whole)
    THEN RefIsSubsequence(Tail(part), Tail(whole))
    ELSE RefIsSubsequence(part, Tail(whole))

\* The names among the segments of the input, in their order.
RefInputNames(p) == SelectSeq(RefSplit(p, "/"), RefIsName)
RefHasDotDot(p) == \E i \in 1..Len(RefSplit(p, "/")) : RefSplit(p, "/")[i] = RefDotDot

\* What stands before the part that comes from the input: the empty
\* segment before the leading separator for an absolute input, leading
\* segments of the working directory for a relative one.
RefLeadingPart(p, directory) ==
    IF p[1] = "/" THEN {<< << >> >>}
    ELSE {SubSeq(RefSplit(directory, "/"), 1, n) :
              n \in 0..Len(RefSplit(directory, "/"))}

\* segments is a leading part followed by names of the input only
RefInputPartIsNames(segments, p, directory) ==
    \E k \in 0..Len(segments) :
        /\ SubSeq(segments, 1, k) \in RefLeadingPart(p, directory)
        /\ \A i \in (k + 1)..Len(segments) : RefIsName(segments[i])
        /\ RefIsSubsequence(SubSeq(segments, k + 1, Len(segments)),
                            RefInputNames(p))
        /\ ~RefHasDotDot(p)
               => SubSeq(segments, k + 1, Len(segments)) = RefInputNames(p)

(***************************************************************************)
(* C26.  The part of a successful get_full_path result (POSIX build) that  *)
(* comes from the input path contains no empty, `.` or `..` segment: it     *)
(* consists of                                                             *)
(* names of the input in their order, so runs of separators collapse and   *)
(* a trailing separator is dropped.  Only segments of exactly one or two   *)
(* dots are `.` and `..`: without a `..` in the input every name of it,    *)
(* `..x`, `.a` and `...` included, is in the result.                       *)
(***************************************************************************)
C26_InputPartHasNamesOnly ==
    (PosixCall /\ result.status = "ok")
        => RefInputPartIsNames(RefSplit(result.full_path, "/"), path, cwd)

C26_Witness ==
    /\ PosixCall
    /\ result.status = "ok"
    /\ path = <<".", ".", ".", "/", "/", ".", ".", "x", "/">>
    /\ cwd = <<"/", "a">>
    /\ result.full_path = <<"/", "a", "/", ".", ".", ".", "/", ".", ".", "x">>

(***************************************************************************)
(* Windows: `..` right after the drive root of an Absolute path.           *)
(***************************************************************************)
\* p is `<letter>:\..\` followed by names separated by single separators
RefIsDriveRootDotDotNames(p) ==
    /\ Len(p) >= 7
    /\ RefHasDrive(p)
    /\ SubSeq(p, 3, 6) = <<"\\", ".", ".", "\\">>
    /\ LET names == RefSplit(SubSeq(p, 7, Len(p)), "\\")
       IN  \A i \in 1..Len(names) : RefIsName(names[i])

(***************************************************************************)
(* C27.  A Windows Absolute path `<letter>:\..\names` resolves, for every  *)
(* working directory of that volume, to the extended-length prefix, the    *)
(* `<letter>:`, a separator and the names: the call succeeds, and no       *)
(* segment of the working directory is written or taken off the size, so   *)
(* that the size is the length of this result plus one.                    *)
(***************************************************************************)
C27_DriveRootDotDotAbsorbed ==
    (WinCall /\ RefIsDriveRootDotDotNames(path) /\ RefDriveKnown(path))
        => /\ result.status = "ok"
           /\ result.full_path = RefExtendedPrefix \o SubSeq(path, 1, 3)
                                     \o SubSeq(path, 7, Len(path))
           /\ result.full_path_size = Len(result.full_path) + 1
           /\ FullPathIndex = result.full_path_size

(***************************************************************************)
(* C28.  The placement of the terminator never underflows: whenever        *)
(* get_full_path reaches the final write full_path[ full_path_index - 1 ]  *)
(* = 0, full_path_index >= 1 and full_path_size >= 1, so that the index    *)
(* full_path_index - 1 is not below 0; inputs whose segments are all       *)
(* eliminated, such as POSIX `../..` in `/a`, included.  (That the index   *)
(* stays below full_path_size is the size invariant of C1 and C2.)         *)
(***************************************************************************)
C28_TerminatorIndexNotBelowZero ==
    (FullPathCall /\ result.status \in {"ok", "crash"})
        => /\ FullPathIndex >= 1
           /\ result.full_path_size >= 1

(***************************************************************************)
(* Two calls of one sanitizer, on two inputs, to compare their outputs.    *)
(* path and result hold the two inputs and the two results.  The inputs    *)
(* are short strings over a control, a reserved, the two escape, the two   *)
(* separator characters and a plain one, and the strings that look like    *)
(* an escape sequence.                                                     *)
(***************************************************************************)
MaxPairLen == 2

PairAlphabet == {0, 58, 92, 94, 47, 97}
EscapeLookalikes == {<<escape, 120, high, low>> :
                         escape \in {92, 94}, high \in {48, 50, 51},
                         low \in {48, 58, 97, 102}}
PairStrings == SeqsUpTo(PairAlphabet, MaxPairLen) \cup EscapeLookalikes

InitPair ==
    /\ platform \in {"posix", "windows"}
    /\ cwd = << >>
    /\ driveDirs = << >>
    /\ op \in SanitizeFunctions
    /\ entry = EntryUnset
    /\ path \in {[first |-> RunsOf(first), second |-> RunsOf(second)] :
                     first \in PairStrings, second \in PairStrings}
    /\ pc = "first"
    /\ result = NoResult

\* The sanitizer called on the first input.
SanitizeFirst ==
    /\ pc = "first"
    /\ op \in SanitizeFunctions
    /\ \E r \in GetSanitized(platform, op, path.first, entry) :
           result' = [first |-> r, second |-> r]
    /\ pc' = "second"
    /\ UNCHANGED <<platform, cwd, driveDirs, op, path, entry>>

\* The sanitizer called on the second input.
SanitizeSecond ==
    /\ pc = "second"
    /\ op \in SanitizeFunctions
    /\ \E r \in GetSanitized(platform, op, path.second, entry) :
           result' = [result EXCEPT !.second = r]
    /\ pc' = "done"
    /\ UNCHANGED <<platform, cwd, driveDirs, op, path, entry>>

NextPair == SanitizeFirst \/ SanitizeSecond

SpecPair == InitPair /\ [][NextPair]_vars

RECURSIVE RefCharactersOf(_)
\* The characters of a string of runs (each run repeated count times).
RefCharactersOf(runs) ==
    IF runs = << >> THEN << >>
    ELSE IF Head(runs).count = 0 THEN RefCharactersOf(Tail(runs))
    ELSE Head(runs).block
             \o RefCharactersOf(<<[Head(runs) EXCEPT !.count = @ - 1]>> \o Tail(runs))

BothSanitized ==
    /\ pc = "done"
    /\ op \in SanitizeFunctions
    /\ result.first.status = "ok"
    /\ result.second.status = "ok"

(***************************************************************************)
(* C29.  Sanitization is reversible: sanitize_filename and sanitize_path   *)
(* are injective.  Two different inputs over control, reserved, escape,    *)
(* separator and plain characters, on both of which the operation          *)
(* succeeds, have different outputs.                                       *)
(***************************************************************************)
C29_SanitizeInjective ==
    (BothSanitized /\ path.first # path.second)
        => RefCharactersOf(result.first.written)
               # RefCharactersOf(result.second.written)

\* a control character and the text of its escape sequence
C29_Witness ==
    /\ BothSanitized
    /\ platform = "posix"
    /\ op = "sanitize_filename"
    /\ path.first = RunsOf(<<0>>)
    /\ path.second = RunsOf(<<92, 120, 48, 48>>)
    /\ RefCharactersOf(result.first.written) = <<92, 120, 48, 48>>
    /\ RefCharactersOf(result.second.written) = <<92, 92, 120, 48, 48>>

\* The characters of the output and of the input.
RefOutputCharacters ==
    UNION {{result.written[i].block[k] : k \in 1..Len(result.written[i].block)} :
               i \in 1..Len(result.written)}
RefInputCharacters == {path[i].block[1] : i \in 1..Len(path)}
RefHexDigits == (48..57) \cup (97..102)

(***************************************************************************)
(* C30.  Output alphabet of sanitize_filename: on success the output       *)
(* contains no control character, no reserved character and no separator,  *)
(* and the only characters in it that the input does not have are the      *)
(* escape character, `x` and hexadecimal digits.  Stated as the claim; the *)
(* code writes the reserved `:` for a nibble of value 10.                  *)
(***************************************************************************)
C30_FilenameOutputAlphabet ==
    (SanitizeSucceeded /\ op = "sanitize_filename")
        => /\ \A character \in RefOutputCharacters :
                  /\ ~RefIsControlOrReserved(character)
                  /\ character # RefSeparator
           /\ RefOutputCharacters \ RefInputCharacters
                  \subseteq ({RefEscape, 120} \cup RefHexDigits)

====
